---- MODULE Spec2Model ----
(***************************************************************************)
(* normark: trading-journal backend.                                       *)
(*                                                                         *)
(* State: the trading_journals and trading_journal_entries tables (rows    *)
(* keep a soft-delete marker) and the look-aside cache of the journal      *)
(* service.  One action per HTTP handler; a handler runs its whole call    *)
(* chain (request validation, service, storage, cache) in one step.  For   *)
(* every handler an operator of the same name prefixed Handle gives its    *)
(* outcome in the current state: the HTTP response and the tables and      *)
(* cache it leaves; the action installs that outcome.  Every request       *)
(* modelled here has passed the Auth middleware, so it carries the         *)
(* caller's user id.                                                       *)
(*                                                                         *)
(* Ids: the store assigns gen_random_uuid() ids; row i of a table has id   *)
(* i, and a route id that no row has yet is an unknown uuid.               *)
(* Decimals (decimal(10,2)) are kept in hundredths.                        *)
(***************************************************************************)
EXTENDS Integers, Sequences, FiniteSets, TLC

\* ------------------------------------------------------------------ bounds
MaxJournals == 2

MaxEntries == 2

MaxUsers == 3

MaxInflight == 2

\* ------------------------------------------------------- program constants
StatusOK == 200

StatusCreated == 201

StatusBadRequest == 400

StatusUnauthorized == 401

StatusForbidden == 403

StatusNotFound == 404

StatusInternalServerError == 500

\* The expiry GetByID gives a cached journal, in minutes
JournalCacheTTLMinutes == 15

Users == {"u1", "u2"}

\* uuid.Nil
NilUUID == "nil"

JournalRouteIds == 1..MaxJournals

EntryRouteIds == 1..MaxEntries

\* ---------------------------------------------------------------- types
TradingSessionIsValid(s) == s \in {"asia", "london", "new_york"}

TradeTypeIsValid(t) == t \in {"swing", "intraday"}

TradeDirectionIsValid(d) == d \in {"buy", "sell"}

EntryTypeIsValid(e) == e \in {"market", "limit"}

TradeResultIsValid(r) == r \in {"TP", "SL", "BE"}

TimeFrameIsValid(tf) == tf \in {"1M", "5M", "15M", "30M", "1H", "4H", "1D", "1W", "1MO"}

CurrencyPairIsValid(cp) ==
    cp \in {"EURUSD", "GBPUSD", "USDJPY", "USDCHF", "AUDUSD", "USDCAD", "NZDUSD",
            "EURGBP", "EURJPY", "GBPJPY", "EURCHF", "EURAUD", "EURCAD", "GBPCHF",
            "GBPAUD", "GBPCAD", "USDTRY", "USDMXN", "USDZAR", "USDNOK", "USDSEK"}

\* ------------------------------------------------------------- requests
\* Create/UpdateTradingJournalRequest bodies: a name and a description.
JournalRequests ==
    { [name |-> "Forex Main", description |-> ""],
      [name |-> "Swing", description |-> "swing trades"],
      [name |-> "", description |-> ""] }

\* validate:"required,min=1,max=255" on Name (the names here are far below 255)
ValidateJournalRequest(req) == req.name # ""

\* The trade fields of Create/UpdateTradingJournalEntryRequest that the
\* validation and the statistics read.
EntryRequest(asset, realized, maxRR, result) ==
    [asset |-> asset, ltf |-> "15M", htf |-> "4H", session |-> "london",
     trade_type |-> "intraday", direction |-> "buy", entry_type |-> "market",
     realized |-> realized, max_rr |-> maxRR, result |-> result]

EntryRequests ==
    { EntryRequest("EURUSD", 12050, 250, "TP"),
      EntryRequest("EURUSD", -5000, 100, "SL"),
      EntryRequest("GBPUSD", 500, 150, "BE"),
      EntryRequest("EURUSD", 12050, 250, "XX"),
      EntryRequest("EURUSD", 12050, 0, "TP") }

\* The entry request bodies drawn when the cache is configured
CacheSpecEntryRequests ==
    { EntryRequest("EURUSD", 12050, 250, "TP"),
      EntryRequest("EURUSD", 12050, 0, "TP") }

\* validator tags: required on asset, ltf, htf, session, trade_type,
\* direction, entry_type, realized and result; required,gt=0 on max_rr.
\* required rejects the zero value of the field's type.  ltf and htf are
\* assigned to the entity's types.TimeFrame fields, so they hold a time
\* frame and only their required tag is kept here.
ValidateEntryRequest(req) ==
    /\ req.asset # ""
    /\ req.ltf # ""
    /\ req.htf # ""
    /\ req.session # ""
    /\ req.trade_type # ""
    /\ req.direction # ""
    /\ req.entry_type # ""
    /\ req.realized # 0
    /\ req.max_rr # 0 /\ req.max_rr > 0
    /\ req.result # ""

\* ------------------------------------------------------------------ state
VARIABLES
    journals,      \* trading_journals: Seq of [user_id, name, description, deleted]
    entries,       \* trading_journal_entries: Seq of [journal_id, data, deleted]
    cacheEnabled,  \* whether initCache connected and WithCache was applied
    cache,         \* key "journal:<id>" -> marshalled journal, for the keys present
    users,         \* users: Seq of [email, username]
    usersUnique,   \* whether the users table has UNIQUE on email and username
    inflight,      \* requests between two of their store or cache calls
    visitors,      \* RateLimiter.visitors: client IP -> its *rate.Limiter
    limiters       \* the rate.Limiter objects created so far: tokens left in each

vars == <<journals, entries, cacheEnabled, cache, users, usersUnique, inflight,
         visitors, limiters>>

NoBody == [none |-> TRUE]

\* An HTTP response: the status, the error message (or ""), the body, and
\* whether the journal in it came from the cache without a store read.
Response(status, err, hit, body) ==
    [status |-> status, err |-> err, hit |-> hit, body |-> body]

Fail(status, err) == Response(status, err, FALSE, NoBody)

\* Redis answered the ping at start-up: the journal service got WithCache
Init ==
    /\ journals = <<>>
    /\ entries = <<>>
    /\ cacheEnabled = TRUE
    /\ cache = [k \in {} |-> NoBody]
    /\ users = <<>>
    /\ usersUnique = TRUE
    /\ visitors = [ip \in {} |-> 0]
    /\ limiters = <<>>
    /\ inflight = <<>>

\* Redis did not answer: the services run without a cache
InitNoCache ==
    /\ journals = <<>>
    /\ entries = <<>>
    /\ cacheEnabled = FALSE
    /\ cache = [k \in {} |-> NoBody]
    /\ users = <<>>
    /\ usersUnique = TRUE
    /\ visitors = [ip \in {} |-> 0]
    /\ limiters = <<>>
    /\ inflight = <<>>

\* The outcomes of the cache's calls in one request: each call may fail
\* when there is a cache, and there is no call when there is none.
CacheOutcomes == IF cacheEnabled THEN BOOLEAN ELSE {TRUE}

\* --------------------------------------------------------------- entities
\* entity.TradingJournal as held in memory
Journal(id, row) ==
    [id |-> id, user_id |-> row.user_id, name |-> row.name,
     description |-> row.description, deleted |-> row.deleted]

NilJournal ==
    [id |-> 0, user_id |-> NilUUID, name |-> "", description |-> "", deleted |-> FALSE]

NewTradingJournal(userID, name, description) ==
    [id |-> 0, user_id |-> userID, name |-> name, description |-> description,
     deleted |-> FALSE]

\* TradingJournal.Validate: "" for nil, else the error
JournalValidate(j) ==
    IF j.user_id = NilUUID THEN "invalid user ID"
    ELSE IF j.name = "" THEN "invalid journal name"
    ELSE ""

\* entity.TradingJournalEntry as held in memory
Entry(id, row) ==
    [id |-> id, journal_id |-> row.journal_id, data |-> row.data, deleted |-> row.deleted]

NewTradingJournalEntry(journalID, req) ==
    [id |-> 0, journal_id |-> journalID, data |-> req, deleted |-> FALSE]

EntryValidate_HTFBeforeLTF(e) ==
    IF e.journal_id = 0 THEN "invalid journal ID"
    ELSE IF ~CurrencyPairIsValid(e.data.asset) THEN "invalid currency pair asset"
    ELSE IF ~TimeFrameIsValid(e.data.htf) THEN "invalid higher timeframe (HTF)"
    ELSE IF ~TimeFrameIsValid(e.data.ltf) THEN "invalid lower timeframe (LTF)"
    ELSE IF ~TradingSessionIsValid(e.data.session) THEN "invalid trading session"
    ELSE IF ~TradeTypeIsValid(e.data.trade_type) THEN "invalid trade type"
    ELSE IF ~TradeDirectionIsValid(e.data.direction) THEN "invalid trade direction"
    ELSE IF ~EntryTypeIsValid(e.data.entry_type) THEN "invalid entry type"
    ELSE IF ~TradeResultIsValid(e.data.result) THEN "invalid trade result"
    ELSE ""

\* TradingJournalEntry.Validate: the first failing check decides
EntryValidate(e) ==
    IF e.journal_id = 0 THEN "invalid journal ID"
    ELSE IF ~CurrencyPairIsValid(e.data.asset) THEN "invalid currency pair asset"
    ELSE IF ~TimeFrameIsValid(e.data.ltf) THEN "invalid lower timeframe (LTF)"
    ELSE IF ~TimeFrameIsValid(e.data.htf) THEN "invalid higher timeframe (HTF)"
    ELSE IF ~TradingSessionIsValid(e.data.session) THEN "invalid trading session"
    ELSE IF ~TradeTypeIsValid(e.data.trade_type) THEN "invalid trade type"
    ELSE IF ~TradeDirectionIsValid(e.data.direction) THEN "invalid trade direction"
    ELSE IF ~EntryTypeIsValid(e.data.entry_type) THEN "invalid entry type"
    ELSE IF ~TradeResultIsValid(e.data.result) THEN "invalid trade result"
    ELSE ""

\* bun adds "deleted_at IS NULL" to every SELECT, UPDATE and DELETE on a
\* model that has a soft_delete field.
NotDeleted_IgnoreMarker(row) == TRUE

NotDeleted(row) == ~row.deleted

\* ------------------------------------------------- TradingJournalStorage
JournalRowsByID(id) == {i \in DOMAIN journals : i = id /\ NotDeleted(journals[i])}

\* GetByID: [err, journal]
JournalStorageGetByID(id) ==
    IF JournalRowsByID(id) = {}
    THEN [err |-> "trading journal not found", journal |-> NilJournal]
    ELSE [err |-> "", journal |-> Journal(id, journals[id])]

\* The has-many relation Entries: the journal's entries that are not deleted
JournalRelationEntries(id) ==
    {Entry(i, entries[i]) : i \in {k \in DOMAIN entries :
        entries[k].journal_id = id /\ NotDeleted(entries[k])}}

\* GetByIDWithEntries: [err, journal, entries]
JournalStorageGetByIDWithEntries(id) ==
    IF JournalRowsByID(id) = {}
    THEN [err |-> "trading journal not found", journal |-> NilJournal, entries |-> {}]
    ELSE [err |-> "", journal |-> Journal(id, journals[id]),
          entries |-> JournalRelationEntries(id)]

JournalStorageGetByUserID(userID) ==
    {Journal(i, journals[i]) : i \in {k \in DOMAIN journals :
        journals[k].user_id = userID /\ NotDeleted(journals[k])}}

JournalStorageCountByUserID(userID) ==
    Cardinality({k \in DOMAIN journals :
        journals[k].user_id = userID /\ NotDeleted(journals[k])})

JournalStorageExists_AnyUser(id, userID) ==
    Cardinality({i \in DOMAIN journals : i = id /\ NotDeleted(journals[i])}) > 0

\* Exists: count of rows with id = ? AND user_id = ? is positive
JournalStorageExists(id, userID) ==
    Cardinality({i \in DOMAIN journals :
        i = id /\ journals[i].user_id = userID /\ NotDeleted(journals[i])}) > 0

\* Create: [err, journals]; the store assigns the id
JournalStorageCreate(j) ==
    [err |-> "", id |-> Len(journals) + 1,
     journals |-> Append(journals, [user_id |-> j.user_id, name |-> j.name,
                                    description |-> j.description, deleted |-> FALSE])]

\* Update ... WherePK: every column is written from the entity; no row
\* affected is "not found"
JournalStorageUpdate(j) ==
    IF JournalRowsByID(j.id) = {}
    THEN [err |-> "trading journal not found", journals |-> journals]
    ELSE [err |-> "",
          journals |-> [journals EXCEPT ![j.id] =
              [user_id |-> j.user_id, name |-> j.name,
               description |-> j.description, deleted |-> j.deleted]]]

JournalStorageDelete_IgnoreRowsAffected(id) ==
    IF JournalRowsByID(id) = {}
    THEN [err |-> "", journals |-> journals]
    ELSE [err |-> "", journals |-> [journals EXCEPT ![id].deleted = TRUE]]

\* Delete: sets deleted_at on the row; no row affected is "not found"
JournalStorageDelete(id) ==
    IF JournalRowsByID(id) = {}
    THEN [err |-> "trading journal not found", journals |-> journals]
    ELSE [err |-> "", journals |-> [journals EXCEPT ![id].deleted = TRUE]]

\* -------------------------------------------- TradingJournalEntryStorage
EntryRowsByID(id) == {i \in DOMAIN entries : i = id /\ NotDeleted(entries[i])}

EntryStorageGetByID(id) ==
    IF EntryRowsByID(id) = {}
    THEN [err |-> "trading journal entry not found", entry |-> NewTradingJournalEntry(0, NoBody)]
    ELSE [err |-> "", entry |-> Entry(id, entries[id])]

EntryStorageGetByJournalID(journalID) ==
    {Entry(i, entries[i]) : i \in {k \in DOMAIN entries :
        entries[k].journal_id = journalID /\ NotDeleted(entries[k])}}

EntryStorageCountByJournalID_AllJournals(journalID) ==
    Cardinality({k \in DOMAIN entries : NotDeleted(entries[k])})

EntryStorageCountByJournalID(journalID) ==
    Cardinality({k \in DOMAIN entries :
        entries[k].journal_id = journalID /\ NotDeleted(entries[k])})

EntryStorageExists_AnyJournal(id, journalID) ==
    Cardinality({i \in DOMAIN entries : i = id /\ NotDeleted(entries[i])}) > 0

\* Exists: count of rows with id = ? AND journal_id = ? is positive
EntryStorageExists(id, journalID) ==
    Cardinality({i \in DOMAIN entries :
        i = id /\ entries[i].journal_id = journalID /\ NotDeleted(entries[i])}) > 0

EntryStorageCreate(e) ==
    [err |-> "", id |-> Len(entries) + 1,
     entries |-> Append(entries, [journal_id |-> e.journal_id, data |-> e.data,
                                  deleted |-> FALSE])]

EntryStorageUpdate(e) ==
    IF EntryRowsByID(e.id) = {}
    THEN [err |-> "trading journal entry not found", entries |-> entries]
    ELSE [err |-> "",
          entries |-> [entries EXCEPT ![e.id] =
              [journal_id |-> e.journal_id, data |-> e.data, deleted |-> e.deleted]]]

EntryStorageDelete(id) ==
    IF EntryRowsByID(id) = {}
    THEN [err |-> "trading journal entry not found", entries |-> entries]
    ELSE [err |-> "", entries |-> [entries EXCEPT ![id].deleted = TRUE]]

\* A float64 result of a division, kept as the fraction it is
Rat(n, d) == [num |-> n, den |-> d]

RECURSIVE SumOver(_, _)
\* SUM(col) over the rows S, col being "realized" or "max_rr"
SumOver(S, col) ==
    IF S = {} THEN 0
    ELSE LET i == CHOOSE k \in S : TRUE
         IN  (IF col = "realized" THEN entries[i].data.realized ELSE entries[i].data.max_rr)
             + SumOver(S \ {i}, col)

\* The key the switch on stat.Result writes, "" when no case matches
ResultStatKey_NoBreakEven(result) ==
    IF result = "TP" THEN "wins"
    ELSE IF result = "SL" THEN "losses"
    ELSE ""

ResultStatKey(result) ==
    IF result = "TP" THEN "wins"
    ELSE IF result = "SL" THEN "losses"
    ELSE IF result = "BE" THEN "break_even"
    ELSE ""

\* GetStatistics: the stats map; a result bucket is a key only when the
\* GROUP BY returned a row for it
EntryStorageGetStatistics(journalID) ==
    LET rows     == {k \in DOMAIN entries :
                        entries[k].journal_id = journalID /\ NotDeleted(entries[k])}
        groups   == {entries[k].data.result : k \in rows}
        buckets  == {ResultStatKey(r) : r \in groups} \ {""}
        count(b) == Cardinality({k \in rows : ResultStatKey(entries[k].data.result) = b})
        n        == Cardinality(rows)
    IN  [k \in {"total_trades", "total_realized", "avg_risk_reward"} \cup buckets |->
            IF k = "total_trades" THEN EntryStorageCountByJournalID(journalID)
            ELSE IF k = "total_realized" THEN SumOver(rows, "realized")
            ELSE IF k = "avg_risk_reward"
                 THEN (IF n = 0 THEN Rat(0, 1) ELSE Rat(SumOver(rows, "max_rr"), n))
            ELSE count(k)]

\* ------------------------------------------------------------------ cache
\* fmt.Sprintf("journal:%s", id)
CacheKey(id) == <<"journal", id>>

\* json.Marshal of the entity: one member per exported field
MarshalJournal(j) ==
    [ID |-> j.id, UserID |-> j.user_id, Name |-> j.name,
     Description |-> j.description, DeletedAt |-> j.deleted]

\* json.Unmarshal into entity.TradingJournal
UnmarshalJournal(v) ==
    [id |-> v.ID, user_id |-> v.UserID, name |-> v.Name,
     description |-> v.Description, deleted |-> v.DeletedAt]

\* Redis.Set: the value is stored with its expiry (minutes)
CacheSet(c, key, value, expiration) ==
    [k \in (DOMAIN c) \cup {key} |->
        IF k = key THEN [data |-> value, ttl |-> expiration] ELSE c[k]]

CacheDelete(c, key) == [k \in (DOMAIN c) \ {key} |-> c[k]]

\* ------------------------------------------------- TradingJournalService
JournalServiceGetByID_NoPopulate(c, id, getOK, setOK) ==
    IF cacheEnabled /\ getOK /\ CacheKey(id) \in DOMAIN c
    THEN [err |-> "", journal |-> UnmarshalJournal(c[CacheKey(id)].data), cache |-> c,
          hit |-> TRUE, reads |-> 0]
    ELSE LET r == JournalStorageGetByID(id)
         IN  IF r.err # ""
             THEN [err |-> "failed to get trading journal", journal |-> NilJournal,
                   cache |-> c, hit |-> FALSE, reads |-> 1]
             ELSE [err |-> "", journal |-> r.journal, cache |-> c, hit |-> FALSE,
                   reads |-> 1]

JournalServiceGetByID_AlwaysCache(c, id, getOK, setOK) ==
    IF getOK /\ CacheKey(id) \in DOMAIN c
    THEN [err |-> "", journal |-> UnmarshalJournal(c[CacheKey(id)].data), cache |-> c,
          hit |-> TRUE, reads |-> 0]
    ELSE LET r == JournalStorageGetByID(id)
         IN  IF r.err # ""
             THEN [err |-> "failed to get trading journal", journal |-> NilJournal,
                   cache |-> c, hit |-> FALSE, reads |-> 1]
             ELSE [err |-> "", journal |-> r.journal,
                   cache |-> CacheSet(c, CacheKey(id), MarshalJournal(r.journal),
                                      JournalCacheTTLMinutes),
                   hit |-> FALSE, reads |-> 1]

\* GetByID: [err, journal, cache, hit, reads].  getOK / setOK: whether the
\* cache's Get / Set call succeeds (a Get of an absent key is an error too);
\* reads: the number of store reads made.
JournalServiceGetByID(c, id, getOK, setOK) ==
    IF cacheEnabled /\ getOK /\ CacheKey(id) \in DOMAIN c
    THEN [err |-> "", journal |-> UnmarshalJournal(c[CacheKey(id)].data), cache |-> c,
          hit |-> TRUE, reads |-> 0]
    ELSE LET r == JournalStorageGetByID(id)
         IN  IF r.err # ""
             THEN [err |-> "failed to get trading journal", journal |-> NilJournal,
                   cache |-> c, hit |-> FALSE, reads |-> 1]
             ELSE [err |-> "", journal |-> r.journal,
                   cache |-> IF cacheEnabled /\ setOK
                             THEN CacheSet(c, CacheKey(id), MarshalJournal(r.journal),
                                           JournalCacheTTLMinutes)
                             ELSE c,
                   hit |-> FALSE, reads |-> 1]

\* Create: [err, id, journals]
JournalServiceCreate(userID, req) ==
    LET journal == NewTradingJournal(userID, req.name, req.description)
    IN  IF JournalValidate(journal) # ""
        THEN [err |-> "invalid trading journal data", id |-> 0, journals |-> journals]
        ELSE JournalStorageCreate(journal)

JournalServiceUpdate_FailOnCacheError(c, journal, delOK) ==
    IF JournalValidate(journal) # ""
    THEN [err |-> "invalid trading journal data", journals |-> journals, cache |-> c]
    ELSE LET r == JournalStorageUpdate(journal)
         IN  IF r.err # ""
             THEN [err |-> "failed to update trading journal", journals |-> journals,
                   cache |-> c]
             ELSE IF cacheEnabled /\ ~delOK
             THEN [err |-> "failed to invalidate cache after update",
                   journals |-> r.journals, cache |-> c]
             ELSE [err |-> "", journals |-> r.journals,
                   cache |-> IF cacheEnabled THEN CacheDelete(c, CacheKey(journal.id)) ELSE c]

\* Update: [err, journals, cache]; the key is invalidated after the store
\* update succeeded, delOK: whether the cache's Delete call succeeds
JournalServiceUpdate(c, journal, delOK) ==
    IF JournalValidate(journal) # ""
    THEN [err |-> "invalid trading journal data", journals |-> journals, cache |-> c]
    ELSE LET r == JournalStorageUpdate(journal)
         IN  IF r.err # ""
             THEN [err |-> "failed to update trading journal", journals |-> journals,
                   cache |-> c]
             ELSE [err |-> "", journals |-> r.journals,
                   cache |-> IF cacheEnabled /\ delOK
                             THEN CacheDelete(c, CacheKey(journal.id)) ELSE c]

JournalServiceDelete_NoOwnerCheck(c, id, userID, delOK) ==
    LET r == JournalStorageDelete(id)
    IN  IF r.err # ""
        THEN [err |-> "failed to delete trading journal", journals |-> journals, cache |-> c]
        ELSE [err |-> "", journals |-> r.journals,
              cache |-> IF cacheEnabled /\ delOK THEN CacheDelete(c, CacheKey(id)) ELSE c]

\* Delete: [err, journals, cache]
JournalServiceDelete(c, id, userID, delOK) ==
    IF ~JournalStorageExists(id, userID)
    THEN [err |-> "trading journal not found or access denied", journals |-> journals,
          cache |-> c]
    ELSE LET r == JournalStorageDelete(id)
         IN  IF r.err # ""
             THEN [err |-> "failed to delete trading journal", journals |-> journals,
                   cache |-> c]
             ELSE [err |-> "", journals |-> r.journals,
                   cache |-> IF cacheEnabled /\ delOK
                             THEN CacheDelete(c, CacheKey(id)) ELSE c]

JournalServiceVerifyAccess(journalID, userID) == JournalStorageExists(journalID, userID)

\* ------------------------- TradingJournalService without cache support
\* GetByID: [err, journal]
PlainJournalServiceGetByID(id) ==
    LET r == JournalStorageGetByID(id)
    IN  IF r.err # ""
        THEN [err |-> "failed to get trading journal", journal |-> NilJournal]
        ELSE [err |-> "", journal |-> r.journal]

\* Create: [err, id, journals]
PlainJournalServiceCreate(userID, req) ==
    LET journal == NewTradingJournal(userID, req.name, req.description)
    IN  IF JournalValidate(journal) # ""
        THEN [err |-> "invalid trading journal data", id |-> 0, journals |-> journals]
        ELSE JournalStorageCreate(journal)

\* Update: [err, journals]
PlainJournalServiceUpdate(journal) ==
    IF JournalValidate(journal) # ""
    THEN [err |-> "invalid trading journal data", journals |-> journals]
    ELSE LET r == JournalStorageUpdate(journal)
         IN  IF r.err # ""
             THEN [err |-> "failed to update trading journal", journals |-> journals]
             ELSE [err |-> "", journals |-> r.journals]

\* Delete: [err, journals]
PlainJournalServiceDelete(id, userID) ==
    IF ~JournalStorageExists(id, userID)
    THEN [err |-> "trading journal not found or access denied", journals |-> journals]
    ELSE LET r == JournalStorageDelete(id)
         IN  IF r.err # ""
             THEN [err |-> "failed to delete trading journal", journals |-> journals]
             ELSE [err |-> "", journals |-> r.journals]

\* -------------------------------------------- TradingJournalEntryService
EntryServiceCreate_PersistFirst(journalID, req) ==
    IF JournalStorageGetByID(journalID).err # ""
    THEN [err |-> "journal not found", id |-> 0, entries |-> entries]
    ELSE LET entry == NewTradingJournalEntry(journalID, req)
             r     == EntryStorageCreate(entry)
         IN  IF EntryValidate(entry) # ""
             THEN [err |-> "invalid trading journal entry data", id |-> 0,
                   entries |-> r.entries]
             ELSE r

\* Create: [err, id, entries]
EntryServiceCreate(journalID, req) ==
    IF JournalStorageGetByID(journalID).err # ""
    THEN [err |-> "journal not found", id |-> 0, entries |-> entries]
    ELSE LET entry == NewTradingJournalEntry(journalID, req)
         IN  IF EntryValidate(entry) # ""
             THEN [err |-> "invalid trading journal entry data", id |-> 0,
                   entries |-> entries]
             ELSE EntryStorageCreate(entry)

\* Update: [err, entries]
EntryServiceUpdate(entry) ==
    IF EntryValidate(entry) # ""
    THEN [err |-> "invalid trading journal entry data", entries |-> entries]
    ELSE LET r == EntryStorageUpdate(entry)
         IN  IF r.err # ""
             THEN [err |-> "failed to update trading journal entry", entries |-> entries]
             ELSE r

EntryServiceDelete_NoExistsCheck(id, journalID) ==
    LET r == EntryStorageDelete(id)
    IN  IF r.err # ""
        THEN [err |-> "failed to delete trading journal entry", entries |-> entries]
        ELSE r

\* Delete: [err, entries]
EntryServiceDelete(id, journalID) ==
    IF ~EntryStorageExists(id, journalID)
    THEN [err |-> "trading journal entry not found or access denied", entries |-> entries]
    ELSE LET r == EntryStorageDelete(id)
         IN  IF r.err # ""
             THEN [err |-> "failed to delete trading journal entry", entries |-> entries]
             ELSE r

EntryServiceVerifyAccess_Skip(entryID, journalID) == TRUE

EntryServiceVerifyAccess(entryID, journalID) == EntryStorageExists(entryID, journalID)

WinRate_NoGuard(stats) ==
    Rat((IF "wins" \in DOMAIN stats THEN stats["wins"] ELSE 0) * 100, stats["total_trades"])

\* float64(wins) / float64(totalTrades) * 100, or 0.0 when there are no trades
WinRate(stats) ==
    IF stats["total_trades"] > 0
    THEN LET wins == IF "wins" \in DOMAIN stats THEN stats["wins"] ELSE 0
         IN  Rat(wins * 100, stats["total_trades"])
    ELSE Rat(0, 1)

\* GetStatistics: the storage's map with win_rate added
EntryServiceGetStatistics(journalID) ==
    LET stats == EntryStorageGetStatistics(journalID)
    IN  [k \in (DOMAIN stats) \cup {"win_rate"} |->
            IF k = "win_rate" THEN WinRate(stats) ELSE stats[k]]

\* ---------------------------------------------------------------- mappers
ToTradingJournalResponse(j) ==
    [id |-> j.id, user_id |-> j.user_id, name |-> j.name, description |-> j.description]

ToTradingJournalEntryResponse(e) ==
    [id |-> e.id, journal_id |-> e.journal_id, data |-> e.data]

ToTradingJournalWithEntriesResponse(j, es) ==
    [id |-> j.id, user_id |-> j.user_id, name |-> j.name, description |-> j.description,
     entries |-> {ToTradingJournalEntryResponse(e) : e \in es}]

\* ToStatisticsResponse: a key the map lacks leaves the field 0
ToStatisticsResponse(stats) ==
    LET int(k) == IF k \in DOMAIN stats THEN stats[k] ELSE 0
        rat(k) == IF k \in DOMAIN stats THEN stats[k] ELSE Rat(0, 1)
    IN  [total_trades |-> int("total_trades"), wins |-> int("wins"),
         losses |-> int("losses"), break_even |-> int("break_even"),
         win_rate |-> rat("win_rate"), total_realized |-> int("total_realized"),
         avg_risk_reward |-> rat("avg_risk_reward")]

\* ---------------------------------------------------- TradingJournalHandler
\* Each Handle operator: [resp, journals, entries, cache] after the request.
Outcome(r, js, es, c) == [resp |-> r, journals |-> js, entries |-> es, cache |-> c]

\* POST /journals
HandleJournalCreate(u, req) ==
    IF ~ValidateJournalRequest(req)
    THEN Outcome(Fail(StatusBadRequest, "validation failed"), journals, entries, cache)
    ELSE LET r == JournalServiceCreate(u, req)
         IN  IF r.err # ""
             THEN Outcome(Fail(StatusInternalServerError, r.err), journals, entries, cache)
             ELSE Outcome(Response(StatusCreated, "", FALSE,
                              ToTradingJournalResponse(Journal(r.id, r.journals[r.id]))),
                          r.journals, entries, cache)

\* GET /journals (default limit 20, offset 0)
HandleJournalList(u) ==
    Outcome(Response(StatusOK, "", FALSE,
                     [journals |-> {ToTradingJournalResponse(j) :
                                       j \in JournalStorageGetByUserID(u)},
                      total |-> JournalStorageCountByUserID(u)]),
            journals, entries, cache)

\* GET /journals/:id
HandleJournalGetByID(u, id, getOK, setOK) ==
    LET r == JournalServiceGetByID(cache, id, getOK, setOK)
    IN  IF r.err # ""
        THEN Outcome(Fail(StatusNotFound, "journal not found"), journals, entries, r.cache)
        ELSE Outcome(Response(StatusOK, "", r.hit, ToTradingJournalResponse(r.journal)),
                     journals, entries, r.cache)

\* GET /journals/:id/with-entries
HandleJournalGetByIDWithEntries(u, id) ==
    LET r == JournalStorageGetByIDWithEntries(id)
    IN  IF r.err # ""
        THEN Outcome(Fail(StatusNotFound, "journal not found"), journals, entries, cache)
        ELSE Outcome(Response(StatusOK, "", FALSE,
                         ToTradingJournalWithEntriesResponse(r.journal, r.entries)),
                     journals, entries, cache)

HandleJournalUpdate_TakesOwnership(u, id, req, getOK, setOK, delOK) ==
    IF ~ValidateJournalRequest(req)
    THEN Outcome(Fail(StatusBadRequest, "validation failed"), journals, entries, cache)
    ELSE LET g == JournalServiceGetByID(cache, id, getOK, setOK)
         IN  IF g.err # ""
             THEN Outcome(Fail(StatusNotFound, "journal not found"), journals, entries, g.cache)
             ELSE LET journal == [g.journal EXCEPT !.name = req.name,
                                                   !.description = req.description,
                                                   !.user_id = u]
                      r == JournalServiceUpdate(g.cache, journal, delOK)
                  IN  IF r.err # ""
                      THEN Outcome(Fail(StatusInternalServerError, r.err),
                                   r.journals, entries, r.cache)
                      ELSE Outcome(Response(StatusOK, "", g.hit,
                                       ToTradingJournalResponse(journal)),
                                   r.journals, entries, r.cache)

\* PUT /journals/:id
HandleJournalUpdate(u, id, req, getOK, setOK, delOK) ==
    IF ~ValidateJournalRequest(req)
    THEN Outcome(Fail(StatusBadRequest, "validation failed"), journals, entries, cache)
    ELSE LET g == JournalServiceGetByID(cache, id, getOK, setOK)
         IN  IF g.err # ""
             THEN Outcome(Fail(StatusNotFound, "journal not found"), journals, entries, g.cache)
             ELSE LET journal == [g.journal EXCEPT !.name = req.name,
                                                   !.description = req.description]
                      r == JournalServiceUpdate(g.cache, journal, delOK)
                  IN  IF r.err # ""
                      THEN Outcome(Fail(StatusInternalServerError, r.err),
                                   r.journals, entries, r.cache)
                      ELSE Outcome(Response(StatusOK, "", g.hit,
                                       ToTradingJournalResponse(journal)),
                                   r.journals, entries, r.cache)

\* DELETE /journals/:id
HandleJournalDelete(u, id, delOK) ==
    LET r == JournalServiceDelete(cache, id, u, delOK)
    IN  IF r.err # ""
        THEN Outcome(Fail(StatusInternalServerError, r.err), r.journals, entries, r.cache)
        ELSE Outcome(Response(StatusOK, "", FALSE, NoBody), r.journals, entries, r.cache)

\* ----------------------------------------------- TradingJournalEntryHandler
\* POST /journals/:id/entries
HandleEntryCreate(u, jid, req) ==
    IF ~ValidateEntryRequest(req)
    THEN Outcome(Fail(StatusBadRequest, "validation failed"), journals, entries, cache)
    ELSE LET r == EntryServiceCreate(jid, req)
         IN  IF r.err # ""
             THEN Outcome(Fail(StatusInternalServerError, r.err), journals, entries, cache)
             ELSE Outcome(Response(StatusCreated, "", FALSE,
                              ToTradingJournalEntryResponse(Entry(r.id, r.entries[r.id]))),
                          journals, r.entries, cache)

\* GET /journals/:id/entries (default limit 20, offset 0)
HandleEntryList(u, jid) ==
    Outcome(Response(StatusOK, "", FALSE,
                     [entries |-> {ToTradingJournalEntryResponse(e) :
                                      e \in EntryStorageGetByJournalID(jid)},
                      total |-> EntryStorageCountByJournalID(jid)]),
            journals, entries, cache)

\* GET /journals/:id/entries/statistics
HandleEntryGetStatistics(u, jid) ==
    Outcome(Response(StatusOK, "", FALSE,
                     ToStatisticsResponse(EntryServiceGetStatistics(jid))),
            journals, entries, cache)

\* GET /journals/:id/entries/:entryId
HandleEntryGetByID(u, jid, eid) ==
    IF ~EntryServiceVerifyAccess(eid, jid)
    THEN Outcome(Fail(StatusForbidden, "access denied"), journals, entries, cache)
    ELSE LET r == EntryStorageGetByID(eid)
         IN  IF r.err # ""
             THEN Outcome(Fail(StatusNotFound, "entry not found"), journals, entries, cache)
             ELSE Outcome(Response(StatusOK, "", FALSE,
                              ToTradingJournalEntryResponse(r.entry)),
                          journals, entries, cache)

HandleEntryUpdate_MovesEntry(u, jid, eid, req) ==
    IF ~ValidateEntryRequest(req)
    THEN Outcome(Fail(StatusBadRequest, "validation failed"), journals, entries, cache)
    ELSE IF ~EntryServiceVerifyAccess(eid, jid)
    THEN Outcome(Fail(StatusForbidden, "access denied"), journals, entries, cache)
    ELSE LET g == EntryStorageGetByID(eid)
         IN  IF g.err # ""
             THEN Outcome(Fail(StatusNotFound, "entry not found"), journals, entries, cache)
             ELSE LET entry == [g.entry EXCEPT !.data = req,
                                               !.journal_id = (jid % MaxJournals) + 1]
                      r == EntryServiceUpdate(entry)
                  IN  IF r.err # ""
                      THEN Outcome(Fail(StatusInternalServerError, r.err),
                                   journals, r.entries, cache)
                      ELSE Outcome(Response(StatusOK, "", FALSE,
                                       ToTradingJournalEntryResponse(entry)),
                                   journals, r.entries, cache)

\* PUT /journals/:id/entries/:entryId
HandleEntryUpdate(u, jid, eid, req) ==
    IF ~ValidateEntryRequest(req)
    THEN Outcome(Fail(StatusBadRequest, "validation failed"), journals, entries, cache)
    ELSE IF ~EntryServiceVerifyAccess(eid, jid)
    THEN Outcome(Fail(StatusForbidden, "access denied"), journals, entries, cache)
    ELSE LET g == EntryStorageGetByID(eid)
         IN  IF g.err # ""
             THEN Outcome(Fail(StatusNotFound, "entry not found"), journals, entries, cache)
             ELSE LET entry == [g.entry EXCEPT !.data = req]
                      r == EntryServiceUpdate(entry)
                  IN  IF r.err # ""
                      THEN Outcome(Fail(StatusInternalServerError, r.err),
                                   journals, r.entries, cache)
                      ELSE Outcome(Response(StatusOK, "", FALSE,
                                       ToTradingJournalEntryResponse(entry)),
                                   journals, r.entries, cache)

\* DELETE /journals/:id/entries/:entryId
HandleEntryDelete(u, jid, eid) ==
    LET r == EntryServiceDelete(eid, jid)
    IN  IF r.err # ""
        THEN Outcome(Fail(StatusInternalServerError, r.err), journals, r.entries, cache)
        ELSE Outcome(Response(StatusOK, "", FALSE, NoBody), journals, r.entries, cache)

\* -------------------------------------------------------------- sign-up
\* dto.SignUpRequest bodies: two emails, two usernames, and one body
\* without an email
SignUpRequest(email, username) ==
    [email |-> email, username |-> username, password |-> "correct horse"]

SignUpRequests ==
    { SignUpRequest(e, n) : e \in {"ann@x.io", "bob@x.io"}, n \in {"ann", "bob"} }
        \cup { SignUpRequest("", "ann") }

\* validate:"required,email" / "required,min=3,max=50" / "required,min=8";
\* every non-empty value of SignUpRequests has the required form
ValidateSignUpRequest(req) ==
    req.email # "" /\ req.username # "" /\ req.password # ""

ErrUserAlreadyExists == "user with this email or username already exists"

\* entity.NewUserFromSignUp: the row to insert (the password is hashed)
NewUserFromSignUp(req) ==
    [email |-> req.email, username |-> req.username, deleted |-> FALSE]

UserStorageExists_EmailOnly(email, username) ==
    Cardinality({i \in DOMAIN users : users[i].email = email /\ NotDeleted(users[i])}) > 0

\* UserStorage.Exists: count of rows with email = ? OR username = ? is positive
UserStorageExists(email, username) ==
    Cardinality({i \in DOMAIN users :
        (users[i].email = email \/ users[i].username = username)
        /\ NotDeleted(users[i])}) > 0

\* UserStorage.Create: INSERT; [err, id, users].  The insert fails on a
\* duplicate only when the table carries the UNIQUE constraints, which it
\* does when AutoMigrate created it from the entity's tags and does not
\* when the SQL migration created it.
UserStorageCreate(user) ==
    IF usersUnique /\ \E i \in DOMAIN users :
           users[i].email = user.email \/ users[i].username = user.username
    THEN [err |-> "failed to create user", id |-> 0, users |-> users]
    ELSE [err |-> "", id |-> Len(users) + 1, users |-> Append(users, user)]

\* UserService.SignUp up to its Exists call: the error that ends it, or ""
UserServiceSignUpExists(req) ==
    IF UserStorageExists(req.email, req.username) THEN ErrUserAlreadyExists ELSE ""

\* UserService.SignUp from its Create call on: [err, users, tokens]
UserServiceSignUpCreate(req) ==
    LET r == UserStorageCreate(NewUserFromSignUp(req))
    IN  IF r.err # ""
        THEN [err |-> "failed to create user", users |-> users, tokens |-> NoBody]
        ELSE [err |-> "", users |-> r.users,
              tokens |-> [access_token |-> <<"access", r.id, req.email, req.username>>,
                          refresh_token |-> <<"refresh", r.id, req.email, req.username>>]]

\* UserHandler.SignUp with nothing running between its calls: [resp, users]
HandleSignUp(req) ==
    IF ~ValidateSignUpRequest(req)
    THEN [resp |-> Fail(StatusBadRequest, "validation failed"), users |-> users]
    ELSE IF UserServiceSignUpExists(req) # ""
    THEN [resp |-> Fail(StatusInternalServerError, UserServiceSignUpExists(req)),
          users |-> users]
    ELSE LET r == UserServiceSignUpCreate(req)
         IN  IF r.err # ""
             THEN [resp |-> Fail(StatusInternalServerError, r.err), users |-> users]
             ELSE [resp |-> Response(StatusCreated, "", FALSE, r.tokens), users |-> r.users]

\* ----------------------------------------------------------------- actions
\* A request is served: the tables and the cache become what its handler
\* leaves.  The tables hold at most MaxJournals and MaxEntries rows.
JournalCreate(u, req) ==
    /\ Len(journals) < MaxJournals
    /\ journals' = HandleJournalCreate(u, req).journals
    /\ UNCHANGED <<entries, cacheEnabled, cache, users, usersUnique, visitors, limiters, inflight>>

JournalList(u) ==
    /\ journals' = HandleJournalList(u).journals
    /\ UNCHANGED <<entries, cacheEnabled, cache, users, usersUnique, visitors, limiters, inflight>>

\* The cache's Get and Set calls of the request succeed or fail
JournalGetByID(u, id) ==
    \E getOK \in CacheOutcomes, setOK \in CacheOutcomes :
        /\ cache' = HandleJournalGetByID(u, id, getOK, setOK).cache
        /\ UNCHANGED <<journals, entries, cacheEnabled, users, usersUnique, visitors, limiters, inflight>>

JournalGetByIDWithEntries(u, id) ==
    /\ journals' = HandleJournalGetByIDWithEntries(u, id).journals
    /\ UNCHANGED <<entries, cacheEnabled, cache, users, usersUnique, visitors, limiters, inflight>>

JournalUpdate(u, id, req) ==
    \E getOK \in CacheOutcomes, setOK \in CacheOutcomes, delOK \in CacheOutcomes :
        LET o == HandleJournalUpdate(u, id, req, getOK, setOK, delOK)
        IN  /\ journals' = o.journals
            /\ cache' = o.cache
            /\ UNCHANGED <<entries, cacheEnabled, users, usersUnique, visitors, limiters, inflight>>

JournalDelete(u, id) ==
    \E delOK \in CacheOutcomes :
        LET o == HandleJournalDelete(u, id, delOK)
        IN  /\ journals' = o.journals
            /\ cache' = o.cache
            /\ UNCHANGED <<entries, cacheEnabled, users, usersUnique, visitors, limiters, inflight>>

EntryCreate(u, jid, req) ==
    /\ Len(entries) < MaxEntries
    /\ entries' = HandleEntryCreate(u, jid, req).entries
    /\ UNCHANGED <<journals, cacheEnabled, cache, users, usersUnique, visitors, limiters, inflight>>

EntryList(u, jid) ==
    /\ entries' = HandleEntryList(u, jid).entries
    /\ UNCHANGED <<journals, cacheEnabled, cache, users, usersUnique, visitors, limiters, inflight>>

EntryGetStatistics(u, jid) ==
    /\ entries' = HandleEntryGetStatistics(u, jid).entries
    /\ UNCHANGED <<journals, cacheEnabled, cache, users, usersUnique, visitors, limiters, inflight>>

EntryGetByID(u, jid, eid) ==
    /\ entries' = HandleEntryGetByID(u, jid, eid).entries
    /\ UNCHANGED <<journals, cacheEnabled, cache, users, usersUnique, visitors, limiters, inflight>>

EntryUpdate(u, jid, eid, req) ==
    /\ entries' = HandleEntryUpdate(u, jid, eid, req).entries
    /\ UNCHANGED <<journals, cacheEnabled, cache, users, usersUnique, visitors, limiters, inflight>>

EntryDelete(u, jid, eid) ==
    /\ entries' = HandleEntryDelete(u, jid, eid).entries
    /\ UNCHANGED <<journals, cacheEnabled, cache, users, usersUnique, visitors, limiters, inflight>>

\* The 15-minute expiry of a cached journal runs out
CacheExpire(id) ==
    /\ CacheKey(id) \in DOMAIN cache
    /\ cache' = CacheDelete(cache, CacheKey(id))
    /\ UNCHANGED <<journals, entries, cacheEnabled, users, usersUnique, visitors, limiters, inflight>>

\* ------------------------------------------------------------ specifications
\* The requests of authenticated users, entry bodies drawn from ereqs
Requests(ereqs) ==
    \/ \E u \in Users, req \in JournalRequests : JournalCreate(u, req)
    \/ \E u \in Users : JournalList(u)
    \/ \E u \in Users, id \in JournalRouteIds : JournalGetByID(u, id)
    \/ \E u \in Users, id \in JournalRouteIds : JournalGetByIDWithEntries(u, id)
    \/ \E u \in Users, id \in JournalRouteIds, req \in JournalRequests :
          JournalUpdate(u, id, req)
    \/ \E u \in Users, id \in JournalRouteIds : JournalDelete(u, id)
    \/ \E u \in Users, jid \in JournalRouteIds, req \in ereqs : EntryCreate(u, jid, req)
    \/ \E u \in Users, jid \in JournalRouteIds : EntryList(u, jid)
    \/ \E u \in Users, jid \in JournalRouteIds : EntryGetStatistics(u, jid)
    \/ \E u \in Users, jid \in JournalRouteIds, eid \in EntryRouteIds : EntryGetByID(u, jid, eid)
    \/ \E u \in Users, jid \in JournalRouteIds, eid \in EntryRouteIds, req \in ereqs :
          EntryUpdate(u, jid, eid, req)
    \/ \E u \in Users, jid \in JournalRouteIds, eid \in EntryRouteIds : EntryDelete(u, jid, eid)

\* With the cache: every journal request and cache outcome; the entry
\* requests carry one of two bodies.
Next ==
    \/ Requests(CacheSpecEntryRequests)
    \/ \E id \in JournalRouteIds : CacheExpire(id)

Spec == Init /\ [][Next]_vars

\* Without the cache: every request body of EntryRequests.
NextNoCache == Requests(EntryRequests)

SpecNoCache == InitNoCache /\ [][NextNoCache]_vars

\* ----------------------------------------------------- concurrent requests
\* POST /sign-up up to the answer of the Exists query: the request ends
\* here when its body is invalid or the identity exists, and is otherwise
\* in flight, on its way to the insert.
SignUpExists(req) ==
    /\ Len(inflight) < MaxInflight
    /\ inflight' = IF ValidateSignUpRequest(req) /\ UserServiceSignUpExists(req) = ""
                   THEN Append(inflight, [kind |-> "sign-up", req |-> req])
                   ELSE inflight
    /\ UNCHANGED <<journals, entries, cacheEnabled, cache, users, usersUnique, visitors, limiters>>

\* inflight without its i-th request
Finished(i) == [k \in 1..(Len(inflight) - 1) |-> IF k < i THEN inflight[k] ELSE inflight[k + 1]]

\* POST /sign-up from the insert on
SignUpCreate(i) ==
    /\ inflight[i].kind = "sign-up"
    /\ Len(users) < MaxUsers
    /\ users' = UserServiceSignUpCreate(inflight[i].req).users
    /\ inflight' = Finished(i)
    /\ UNCHANGED <<journals, entries, cacheEnabled, cache, usersUnique, visitors, limiters>>

\* The users table was created by AutoMigrate (UNIQUE) or by the migration
InitSignUp ==
    /\ journals = <<>>
    /\ entries = <<>>
    /\ cacheEnabled = FALSE
    /\ cache = [k \in {} |-> NoBody]
    /\ users = <<>>
    /\ usersUnique \in BOOLEAN
    /\ visitors = [ip \in {} |-> 0]
    /\ limiters = <<>>
    /\ inflight = <<>>

NextSignUp ==
    \/ \E req \in SignUpRequests : SignUpExists(req)
    \/ \E i \in DOMAIN inflight : SignUpCreate(i)

SpecSignUp == InitSignUp /\ [][NextSignUp]_vars

\* ------------------------------------- concurrent GetByID and Update calls
\* A call in flight: its kind, the step it is about to take, the journal id
\* and the journal it holds
Call(kind, pc, id, journal) == [kind |-> kind, pc |-> pc, id |-> id, journal |-> journal]

\* GetByID up to the answer of the cache's Get: a hit ends the call, a miss
\* or an error sends it to the store
GetByIDCacheGet(id) ==
    /\ cacheEnabled
    /\ Len(inflight) < MaxInflight
    /\ \E getOK \in BOOLEAN :
          inflight' = IF getOK /\ CacheKey(id) \in DOMAIN cache
                      THEN inflight
                      ELSE Append(inflight, Call("get", "store", id, NilJournal))
    /\ UNCHANGED <<journals, entries, cacheEnabled, cache, users, usersUnique, visitors, limiters>>

\* GetByID, the store read: an error ends the call
GetByIDStoreRead(i) ==
    /\ inflight[i].kind = "get"
    /\ inflight[i].pc = "store"
    /\ LET r == JournalStorageGetByID(inflight[i].id)
       IN  inflight' = IF r.err # ""
                       THEN Finished(i)
                       ELSE [inflight EXCEPT ![i] = Call("get", "set", inflight[i].id, r.journal)]
    /\ UNCHANGED <<journals, entries, cacheEnabled, cache, users, usersUnique, visitors, limiters>>

\* GetByID, the cache's Set of the journal read, and the return
GetByIDCacheSet(i) ==
    /\ inflight[i].kind = "get"
    /\ inflight[i].pc = "set"
    /\ \E setOK \in BOOLEAN :
          cache' = IF setOK
                   THEN CacheSet(cache, CacheKey(inflight[i].id),
                                 MarshalJournal(inflight[i].journal), JournalCacheTTLMinutes)
                   ELSE cache
    /\ inflight' = Finished(i)
    /\ UNCHANGED <<journals, entries, cacheEnabled, users, usersUnique, visitors, limiters>>

\* Update of a journal the caller has read, up to the store's answer: an
\* invalid journal or a store error ends the call
UpdateStore(id, req) ==
    /\ cacheEnabled
    /\ Len(inflight) < MaxInflight
    /\ JournalStorageGetByID(id).err = ""
    /\ LET journal == [JournalStorageGetByID(id).journal EXCEPT
                           !.name = req.name, !.description = req.description]
           r == JournalStorageUpdate(journal)
       IN  IF JournalValidate(journal) # "" \/ r.err # ""
           THEN UNCHANGED <<journals, inflight>>
           ELSE /\ journals' = r.journals
                /\ inflight' = Append(inflight, Call("update", "invalidate", id, journal))
    /\ UNCHANGED <<entries, cacheEnabled, cache, users, usersUnique, visitors, limiters>>

\* Update, the cache's Delete of the key, which succeeds, and the return
UpdateInvalidate(i) ==
    /\ inflight[i].kind = "update"
    /\ inflight[i].pc = "invalidate"
    /\ cache' = CacheDelete(cache, CacheKey(inflight[i].id))
    /\ inflight' = Finished(i)
    /\ UNCHANGED <<journals, entries, cacheEnabled, users, usersUnique, visitors, limiters>>

\* Journals are created, read and updated by concurrent callers; every
\* invalidation succeeds, the cache's Get and Set may fail, keys expire.
NextJournalRace ==
    \/ \E u \in Users, req \in JournalRequests : JournalCreate(u, req)
    \/ \E id \in JournalRouteIds : GetByIDCacheGet(id)
    \/ \E i \in DOMAIN inflight : GetByIDStoreRead(i)
    \/ \E i \in DOMAIN inflight : GetByIDCacheSet(i)
    \/ \E id \in JournalRouteIds, req \in JournalRequests : UpdateStore(id, req)
    \/ \E i \in DOMAIN inflight : UpdateInvalidate(i)
    \/ \E id \in JournalRouteIds : CacheExpire(id)

SpecJournalRace == Init /\ [][NextJournalRace]_vars

\* ------------------------------------------------ Validate on an entry
\* Entries to validate: each field holds a valid value or one outside its
\* type's valid set; journal id 0 is uuid.Nil
ValidateSamples ==
    { [id |-> 0, journal_id |-> jid, deleted |-> FALSE,
       data |-> [asset |-> a, ltf |-> l, htf |-> h, session |-> se, trade_type |-> t,
                 direction |-> d, entry_type |-> et, realized |-> 12050, max_rr |-> 250,
                 result |-> r]] :
        jid \in {0, 1}, a \in {"EURUSD", "BTCUSD"}, l \in {"15M", "2H"}, h \in {"4H", ""},
        se \in {"london", "tokyo"}, t \in {"intraday", "scalp"}, d \in {"buy", "hold"},
        et \in {"market", "stop"}, r \in {"TP", "WIN"} }

\* entry.Validate() is called on e and returns
EntryValidated(e) ==
    /\ inflight' = <<[kind |-> "validate", entry |-> e, err |-> EntryValidate(e)]>>
    /\ UNCHANGED <<journals, entries, cacheEnabled, cache, users, usersUnique, visitors, limiters>>

NextValidate == \E e \in ValidateSamples : EntryValidated(e)

SpecValidate == InitNoCache /\ [][NextValidate]_vars

\* ----------------------------- entry Create next to a journal Delete
\* Create of the entry service up to the answer of journalStorage.GetByID:
\* "journal not found" ends the call, otherwise it goes on to the insert
EntryCreateCheck(jid, req) ==
    /\ Len(inflight) < MaxInflight
    /\ inflight' = IF JournalStorageGetByID(jid).err # ""
                   THEN inflight
                   ELSE Append(inflight, [kind |-> "entry-create", journal_id |-> jid,
                                          req |-> req])
    /\ UNCHANGED <<journals, entries, cacheEnabled, cache, users, usersUnique, visitors, limiters>>

\* Create from NewTradingJournalEntry on: [err, id, entries].  The foreign
\* key of the INSERT is met by every journal row, deleted_at set or not,
\* and no journal row is ever removed.
EntryServiceCreateInsert(journalID, req) ==
    LET entry == NewTradingJournalEntry(journalID, req)
    IN  IF EntryValidate(entry) # ""
        THEN [err |-> "invalid trading journal entry data", id |-> 0, entries |-> entries]
        ELSE IF journalID \notin DOMAIN journals
        THEN [err |-> "failed to create trading journal entry", id |-> 0,
              entries |-> entries]
        ELSE EntryStorageCreate(entry)

EntryCreateInsert(i) ==
    /\ inflight[i].kind = "entry-create"
    /\ Len(entries) < MaxEntries
    /\ entries' = EntryServiceCreateInsert(inflight[i].journal_id, inflight[i].req).entries
    /\ inflight' = Finished(i)
    /\ UNCHANGED <<journals, cacheEnabled, cache, users, usersUnique, visitors, limiters>>

NextEntryRace ==
    \/ \E u \in Users, req \in JournalRequests : JournalCreate(u, req)
    \/ \E u \in Users, id \in JournalRouteIds : JournalDelete(u, id)
    \/ \E jid \in JournalRouteIds, req \in CacheSpecEntryRequests : EntryCreateCheck(jid, req)
    \/ \E i \in DOMAIN inflight : EntryCreateInsert(i)

SpecEntryRace == InitNoCache /\ [][NextEntryRace]_vars

\* ------------------------------------------------------- Auth middleware
\* An Authorization header is the sequence of its words and of the spaces
\* between them; <<>> is the absent (empty) header.
Header(words) == words

\* The access tokens signed with the server's key and not expired, and
\* the user id in their claims
TokenClaims == [t \in {"jwt.u1", "jwt.u2"} |->
                   IF t = "jwt.u1" THEN "u1" ELSE "u2"]

AuthHeaders ==
    { Header(<<>>),
      Header(<<"Bearer", " ", "jwt.u1">>),
      Header(<<"Bearer", " ", "jwt.u2">>),
      Header(<<"Bearer", " ", "jwt.u1.forged">>),
      Header(<<"Bearer", " ", "jwt.u2.expired">>),
      Header(<<"Basic", " ", "jwt.u1">>),
      Header(<<"bearer", " ", "jwt.u1">>),
      Header(<<"jwt.u1">>),
      Header(<<"Bearer", " ">>),
      Header(<<"Bearer", " ", " ", "jwt.u1">>),
      Header(<<"Bearer", " ", "jwt.u1", " ", "jwt.u2">>) }

\* strings.Split(h, " "): the parts between the spaces, each a sequence of
\* words; n spaces give n + 1 parts
RECURSIVE StringsSplit(_)
StringsSplit(h) ==
    IF \A k \in DOMAIN h : h[k] # " "
    THEN <<h>>
    ELSE LET k == CHOOSE i \in DOMAIN h : h[i] = " " /\ \A m \in 1..(i - 1) : h[m] # " "
         IN  <<SubSeq(h, 1, k - 1)>> \o StringsSplit(SubSeq(h, k + 1, Len(h)))

\* JWTManager.ValidateToken: [err, user_id]
ValidateToken(tokenString) ==
    IF Len(tokenString) = 1 /\ tokenString[1] \in DOMAIN TokenClaims
    THEN [err |-> "", user_id |-> TokenClaims[tokenString[1]]]
    ELSE [err |-> "failed to parse token", user_id |-> NilUUID]

Auth_AnyScheme(authHeader) ==
    IF authHeader = <<>>
    THEN [err |-> "missing authorization header", user_id |-> NilUUID]
    ELSE LET parts == StringsSplit(authHeader)
         IN  IF Len(parts) # 2
             THEN [err |-> "invalid authorization header format", user_id |-> NilUUID]
             ELSE LET claims == ValidateToken(parts[2])
                  IN  IF claims.err # ""
                      THEN [err |-> "invalid token", user_id |-> NilUUID]
                      ELSE [err |-> "", user_id |-> claims.user_id]

\* Middleware.Auth: [err, user_id]; err "" is c.Next() with userID set,
\* any other err is the 401 that aborts the chain
Auth(authHeader) ==
    IF authHeader = <<>>
    THEN [err |-> "missing authorization header", user_id |-> NilUUID]
    ELSE LET parts == StringsSplit(authHeader)
         IN  IF Len(parts) # 2 \/ parts[1] # <<"Bearer">>
             THEN [err |-> "invalid authorization header format", user_id |-> NilUUID]
             ELSE LET claims == ValidateToken(parts[2])
                  IN  IF claims.err # ""
                      THEN [err |-> "invalid token", user_id |-> NilUUID]
                      ELSE [err |-> "", user_id |-> claims.user_id]

\* A request to a route of the /journals group: the route, the path
\* parameters :id and :entryId, and the body
Route(name, id, eid, body) == [name |-> name, id |-> id, eid |-> eid, body |-> body]

JournalRoutes ==
    {Route("POST /journals", 0, 0, req) : req \in JournalRequests}
    \cup {Route("GET /journals", 0, 0, NoBody)}
    \cup {Route(n, id, 0, NoBody) :
            n \in {"GET /journals/:id", "GET /journals/:id/with-entries",
                   "DELETE /journals/:id", "GET /journals/:id/entries",
                   "GET /journals/:id/entries/statistics"},
            id \in JournalRouteIds}
    \cup {Route("PUT /journals/:id", id, 0, req) :
            id \in JournalRouteIds, req \in JournalRequests}
    \cup {Route("POST /journals/:id/entries", id, 0, req) :
            id \in JournalRouteIds, req \in CacheSpecEntryRequests}
    \cup {Route(n, id, eid, NoBody) :
            n \in {"GET /journals/:id/entries/:entryId",
                   "DELETE /journals/:id/entries/:entryId"},
            id \in JournalRouteIds, eid \in EntryRouteIds}
    \cup {Route("PUT /journals/:id/entries/:entryId", id, eid, req) :
            id \in JournalRouteIds, eid \in EntryRouteIds, req \in CacheSpecEntryRequests}

\* The handler InitRoutes registered for the route, run for user u (every
\* cache call succeeds)
Dispatch(r, u) ==
    CASE r.name = "POST /journals" -> HandleJournalCreate(u, r.body)
      [] r.name = "GET /journals" -> HandleJournalList(u)
      [] r.name = "GET /journals/:id" -> HandleJournalGetByID(u, r.id, TRUE, TRUE)
      [] r.name = "GET /journals/:id/with-entries" -> HandleJournalGetByIDWithEntries(u, r.id)
      [] r.name = "PUT /journals/:id" -> HandleJournalUpdate(u, r.id, r.body, TRUE, TRUE, TRUE)
      [] r.name = "DELETE /journals/:id" -> HandleJournalDelete(u, r.id, TRUE)
      [] r.name = "POST /journals/:id/entries" -> HandleEntryCreate(u, r.id, r.body)
      [] r.name = "GET /journals/:id/entries" -> HandleEntryList(u, r.id)
      [] r.name = "GET /journals/:id/entries/statistics" -> HandleEntryGetStatistics(u, r.id)
      [] r.name = "GET /journals/:id/entries/:entryId" -> HandleEntryGetByID(u, r.id, r.eid)
      [] r.name = "PUT /journals/:id/entries/:entryId" ->
             HandleEntryUpdate(u, r.id, r.eid, r.body)
      [] r.name = "DELETE /journals/:id/entries/:entryId" ->
             HandleEntryDelete(u, r.id, r.eid)

\* The chain of the authenticated group: Auth, then the route's handler
ServeAuthenticated(authHeader, r) ==
    LET a == Auth(authHeader)
    IN  IF a.err # ""
        THEN Outcome(Fail(StatusUnauthorized, a.err), journals, entries, cache)
        ELSE Dispatch(r, a.user_id)

\* The chain of the /auth group: the handler alone
ServePublic(authHeader, req) == HandleSignUp(req)

AuthenticatedRequest(authHeader, r) ==
    LET o == ServeAuthenticated(authHeader, r)
    IN  /\ Len(o.journals) <= MaxJournals
        /\ Len(o.entries) <= MaxEntries
        /\ journals' = o.journals
        /\ entries' = o.entries
        /\ cache' = o.cache
        /\ UNCHANGED <<cacheEnabled, users, usersUnique, visitors, limiters, inflight>>

PublicRequest(authHeader, req) ==
    LET o == ServePublic(authHeader, req)
    IN  /\ Len(o.users) <= MaxUsers
        /\ users' = o.users
        /\ UNCHANGED <<journals, entries, cacheEnabled, cache, usersUnique, visitors, limiters, inflight>>

NextAuth ==
    \/ \E h \in AuthHeaders, r \in JournalRoutes : AuthenticatedRequest(h, r)
    \/ \E h \in AuthHeaders, req \in {SignUpRequest("ann@x.io", "ann"), SignUpRequest("", "bob")} :
          PublicRequest(h, req)

SpecAuth == InitNoCache /\ [][NextAuth]_vars

\* ------------------------------------------ a query the database fails
\* GET /journals/:id when the SELECT of the store fails with an error other
\* than sql.ErrNoRows (and the cache, if any, does not hold the key)
HandleJournalGetByIDStoreError(u, id) ==
    LET s == [err |-> "failed to get trading journal by id", journal |-> NilJournal]
        r == IF s.err # ""
             THEN [err |-> "failed to get trading journal", journal |-> NilJournal]
             ELSE [err |-> "", journal |-> s.journal]
    IN  IF r.err # ""
        THEN Outcome(Fail(StatusNotFound, "journal not found"), journals, entries, cache)
        ELSE Outcome(Response(StatusOK, "", FALSE, ToTradingJournalResponse(r.journal)),
                     journals, entries, cache)

\* GET /journals/:id/entries/:entryId when the Exists query succeeds and
\* the SELECT of the entry fails with an error other than sql.ErrNoRows
HandleEntryGetByIDStoreError(u, jid, eid) ==
    IF ~EntryServiceVerifyAccess(eid, jid)
    THEN Outcome(Fail(StatusForbidden, "access denied"), journals, entries, cache)
    ELSE LET s == [err |-> "failed to get trading journal entry by id"]
             r == IF s.err # "" THEN [err |-> "failed to get trading journal entry"]
                                ELSE [err |-> ""]
         IN  IF r.err # ""
             THEN Outcome(Fail(StatusNotFound, "entry not found"), journals, entries, cache)
             ELSE Outcome(Response(StatusOK, "", FALSE, NoBody), journals, entries, cache)

\* ------------------------------------------------------------- properties
\* The rows the tables hold that are not soft-deleted
LiveJournals == {i \in DOMAIN journals : ~journals[i].deleted}

LiveEntries == {i \in DOMAIN entries : ~entries[i].deleted}

LiveEntriesOf(jid) == {i \in LiveEntries : entries[i].journal_id = jid}

\* C1: a journal Delete by a user who does not own the journal fails with
\* "trading journal not found or access denied" and leaves the journal row
\* and all entries as they were.
C1_DeleteByNonOwnerFails ==
    \A u \in Users, id \in DOMAIN journals, delOK \in BOOLEAN :
        journals[id].user_id # u =>
            LET o == HandleJournalDelete(u, id, delOK)
            IN  /\ o.resp.err = "trading journal not found or access denied"
                /\ o.resp.status = StatusInternalServerError
                /\ o.journals = journals
                /\ o.entries = entries

\* A live journal with a live entry, whose deletion another user is refused
C1_Witness ==
    \E u \in Users, id \in LiveJournals :
        /\ journals[id].user_id # u
        /\ LiveEntriesOf(id) # {}
        /\ HandleJournalDelete(u, id, TRUE).resp.status = StatusInternalServerError
        /\ HandleJournalDelete(journals[id].user_id, id, TRUE).resp.status = StatusOK

\* C2: on get by id, get with entries, update and delete of a journal, a
\* caller who is not the owner never receives the journal's data and never
\* changes the row.
C2_JournalEndpointsCheckOwner ==
    \A u \in Users, id \in LiveJournals :
        journals[id].user_id # u =>
            /\ \A getOK \in CacheOutcomes, setOK \in CacheOutcomes :
                  HandleJournalGetByID(u, id, getOK, setOK).resp.status # StatusOK
            /\ HandleJournalGetByIDWithEntries(u, id).resp.status # StatusOK
            /\ \A req \in JournalRequests :
                  HandleJournalUpdate(u, id, req, TRUE, TRUE, TRUE).journals = journals
            /\ HandleJournalDelete(u, id, TRUE).journals = journals

\* C3: the entry endpoints under /journals/{id}/entries serve a caller only
\* when journal {id} is theirs: for another user's journal nothing is
\* created, returned, counted, changed or deleted.
C3_EntryEndpointsCheckJournalOwner ==
    \A u \in Users, jid \in LiveJournals :
        journals[jid].user_id # u =>
            /\ \A req \in EntryRequests : HandleEntryCreate(u, jid, req).entries = entries
            /\ HandleEntryList(u, jid).resp.body.entries = {}
            /\ HandleEntryGetStatistics(u, jid).resp.body.total_trades = 0
            /\ \A eid \in EntryRouteIds :
                  /\ HandleEntryGetByID(u, jid, eid).resp.status # StatusOK
                  /\ HandleEntryDelete(u, jid, eid).entries = entries
                  /\ \A req \in EntryRequests :
                        HandleEntryUpdate(u, jid, eid, req).entries = entries

\* C4: with an entry id and a route journal id that do not go together, get
\* by id answers 403 "access denied" with no body, update changes nothing,
\* and delete changes nothing and fails with "not found or access denied".
C4_EntryMustBelongToRouteJournal ==
    \A u \in Users, jid \in JournalRouteIds, eid \in EntryRouteIds :
        ~(eid \in LiveEntries /\ entries[eid].journal_id = jid) =>
            /\ HandleEntryGetByID(u, jid, eid).resp = Fail(StatusForbidden, "access denied")
            /\ \A req \in EntryRequests :
                  LET o == HandleEntryUpdate(u, jid, eid, req)
                  IN  /\ o.entries = entries
                      /\ o.resp.body = NoBody
                      /\ ValidateEntryRequest(req) => o.resp.status = StatusForbidden
            /\ LET o == HandleEntryDelete(u, jid, eid)
               IN  /\ o.entries = entries
                   /\ o.resp.err = "trading journal entry not found or access denied"

\* A live entry of one journal named under another live journal is refused,
\* and is served under its own
C4_Witness ==
    \E u \in Users, jid \in LiveJournals, eid \in LiveEntries :
        /\ entries[eid].journal_id # jid
        /\ entries[eid].journal_id \in LiveJournals
        /\ HandleEntryGetByID(u, jid, eid).resp.status = StatusForbidden
        /\ HandleEntryGetByID(u, entries[eid].journal_id, eid).resp.status = StatusOK
        /\ HandleEntryDelete(u, entries[eid].journal_id, eid).entries # entries

\* The statistics response for journal jid (the caller plays no part in it)
StatisticsOf(jid) == HandleEntryGetStatistics(NilUUID, jid).resp.body

C6_ZeroExactlyWhenNoTrades ==
    \A jid \in JournalRouteIds :
        LET r == StatisticsOf(jid)
        IN  (r.win_rate.num = 0) <=> (r.total_trades = 0)

\* C6, amended: win_rate is 0.0 when total_trades is 0 and is
\* wins / total_trades * 100 otherwise (so it is 0.0 as well when there are
\* trades and none is a win); no division by zero happens and the request
\* succeeds for every journal id.
C6_WinRate ==
    \A u \in Users, jid \in JournalRouteIds :
        LET o == HandleEntryGetStatistics(u, jid)
            r == o.resp.body
        IN  /\ o.resp.status = StatusOK
            /\ r.win_rate.den # 0
            /\ r.total_trades = 0 => r.win_rate = Rat(0, 1)
            /\ r.total_trades # 0 => r.win_rate = Rat(r.wins * 100, r.total_trades)

\* One journal with two trades of which one is a win, one with a single
\* losing trade or none
C6_Witness ==
    \E jid \in JournalRouteIds, other \in JournalRouteIds :
        /\ StatisticsOf(jid).win_rate = Rat(100, 2)
        /\ StatisticsOf(other).win_rate.num = 0

\* C7: the statistics of journal J count J's rows that are not soft-deleted:
\* total_trades all of them, wins / losses / break_even those with result
\* TP / SL / BE; rows of other journals and soft-deleted rows count nowhere.
C7_StatisticsCountLiveEntriesOfJournal ==
    \A jid \in JournalRouteIds :
        LET r == StatisticsOf(jid)
            n(res) == Cardinality({i \in DOMAIN entries :
                          /\ entries[i].journal_id = jid
                          /\ ~entries[i].deleted
                          /\ entries[i].data.result = res})
        IN  /\ r.total_trades = Cardinality({i \in DOMAIN entries :
                                     entries[i].journal_id = jid /\ ~entries[i].deleted})
            /\ r.wins = n("TP")
            /\ r.losses = n("SL")
            /\ r.break_even = n("BE")

\* A journal with one counted win while the table holds a second row, of
\* another journal or soft-deleted, that is not counted
C7_Witness ==
    \E jid \in JournalRouteIds :
        /\ Len(entries) = MaxEntries
        /\ \E i \in DOMAIN entries : entries[i].journal_id # jid \/ entries[i].deleted
        /\ StatisticsOf(jid).total_trades = 1
        /\ StatisticsOf(jid).wins = 1

\* C8: the entry ownership check answers true exactly for the pairs (e, j)
\* of a row e that is not soft-deleted and has journal_id j; for an entry
\* and any journal other than its own it answers false.
C8_EntryBelongsToJournal ==
    /\ \A e \in EntryRouteIds, j \in JournalRouteIds :
          EntryServiceVerifyAccess(e, j) <=>
              (e \in DOMAIN entries /\ ~entries[e].deleted /\ entries[e].journal_id = j)
    /\ \A e \in DOMAIN entries, j \in JournalRouteIds :
          j # entries[e].journal_id => ~EntryServiceVerifyAccess(e, j)

\* Both answers are given: true for a live entry and its journal, false for
\* it and another live journal, false for a soft-deleted entry and its own
C8_Witness ==
    \E e \in LiveEntries, d \in DOMAIN entries, j \in LiveJournals :
        /\ EntryServiceVerifyAccess(e, entries[e].journal_id)
        /\ j # entries[e].journal_id
        /\ ~EntryServiceVerifyAccess(e, j)
        /\ entries[d].deleted
        /\ ~EntryServiceVerifyAccess(d, entries[d].journal_id)

\* C9: the journal ownership check answers true exactly for the pairs
\* (id, user) of a row that is not soft-deleted and has that user_id; it is
\* false for a soft-deleted journal, an unknown id and any other user.
C9_JournalBelongsToUser ==
    \A id \in JournalRouteIds, u \in Users :
        /\ JournalServiceVerifyAccess(id, u) <=>
              (id \in DOMAIN journals /\ ~journals[id].deleted /\ journals[id].user_id = u)
        /\ id \notin DOMAIN journals => ~JournalServiceVerifyAccess(id, u)
        /\ (id \in DOMAIN journals /\ journals[id].deleted) => ~JournalServiceVerifyAccess(id, u)
        /\ (id \in DOMAIN journals /\ journals[id].user_id # u) =>
              ~JournalServiceVerifyAccess(id, u)

\* A live journal that belongs to its owner and not to the other user, next
\* to a soft-deleted one that belongs to nobody
C9_Witness ==
    \E id \in LiveJournals, d \in DOMAIN journals, u \in Users :
        /\ JournalServiceVerifyAccess(id, journals[id].user_id)
        /\ u # journals[id].user_id
        /\ ~JournalServiceVerifyAccess(id, u)
        /\ journals[d].deleted
        /\ ~JournalServiceVerifyAccess(d, journals[d].user_id)

\* What every read path served from the tables does with soft-deleted rows
StoreReadsSkipDeleted ==
    /\ \A id \in DOMAIN journals : journals[id].deleted =>
          /\ JournalStorageGetByID(id).err # ""
          /\ \A u \in Users :
                /\ HandleJournalGetByIDWithEntries(u, id).resp.status = StatusNotFound
                /\ \A r \in HandleJournalList(u).resp.body.journals : r.id # id
                /\ ~JournalServiceVerifyAccess(id, u)
    /\ \A u \in Users :
          HandleJournalList(u).resp.body.total =
              Cardinality({i \in LiveJournals : journals[i].user_id = u})
    /\ \A e \in DOMAIN entries : entries[e].deleted =>
          /\ EntryStorageGetByID(e).err # ""
          /\ \A u \in Users, jid \in JournalRouteIds :
                /\ HandleEntryGetByID(u, jid, e).resp.status # StatusOK
                /\ \A r \in HandleEntryList(u, jid).resp.body.entries : r.id # e
                /\ ~EntryServiceVerifyAccess(e, jid)
                /\ LET w == HandleJournalGetByIDWithEntries(u, jid).resp
                   IN  w.status = StatusOK => \A r \in w.body.entries : r.id # e
    /\ \A u \in Users, jid \in JournalRouteIds :
          /\ HandleEntryList(u, jid).resp.body.total = Cardinality(LiveEntriesOf(jid))
          /\ StatisticsOf(jid).total_trades = Cardinality(LiveEntriesOf(jid))

\* C10 as stated: a soft-deleted row is absent from every read path, and
\* journal GetByID answers 404 for a soft-deleted journal whether or not the
\* cache holds its key.
C10_NoReadReturnsDeleted ==
    /\ StoreReadsSkipDeleted
    /\ \A id \in DOMAIN journals : journals[id].deleted =>
          \A u \in Users, getOK \in CacheOutcomes, setOK \in CacheOutcomes :
              HandleJournalGetByID(u, id, getOK, setOK).resp.status = StatusNotFound

\* C10, amended: every read served from the tables skips soft-deleted rows,
\* and journal GetByID answers 404 for a soft-deleted journal whenever it
\* reads the table; only an answer taken from the cache (a hit on a key that
\* outlived the deletion) can still carry the soft-deleted journal.
C10_StoreReadsNeverReturnDeleted ==
    /\ StoreReadsSkipDeleted
    /\ \A id \in DOMAIN journals : journals[id].deleted =>
          \A u \in Users, getOK \in CacheOutcomes, setOK \in CacheOutcomes :
              LET o == HandleJournalGetByID(u, id, getOK, setOK)
              IN  /\ ~o.resp.hit => o.resp.status = StatusNotFound
                  /\ o.resp.hit => CacheKey(id) \in DOMAIN cache
                  /\ CacheKey(id) \notin DOMAIN cache => o.resp.status = StatusNotFound

\* A soft-deleted journal, once with its key gone from the cache and once
\* with the key still there, and a soft-deleted entry
C10_Witness ==
    \E id \in DOMAIN journals, kept \in DOMAIN journals, e \in DOMAIN entries :
        /\ journals[id].deleted
        /\ CacheKey(id) \notin DOMAIN cache
        /\ HandleJournalGetByID(journals[id].user_id, id, TRUE, TRUE).resp.status = StatusNotFound
        /\ journals[kept].deleted
        /\ CacheKey(kept) \in DOMAIN cache
        /\ HandleJournalGetByID(journals[kept].user_id, kept, FALSE, TRUE).resp.status
              = StatusNotFound
        /\ entries[e].deleted

\* C11: a sign-up whose email or username a user row already has fails with
\* "user with this email or username already exists", returns no tokens and
\* leaves the users table as it was.
C11_SignUpDuplicateFails ==
    \A req \in SignUpRequests :
        (ValidateSignUpRequest(req) /\ \E i \in DOMAIN users :
            users[i].email = req.email \/ users[i].username = req.username) =>
            LET o == HandleSignUp(req)
            IN  /\ o.resp = Fail(StatusInternalServerError, ErrUserAlreadyExists)
                /\ o.resp.body = NoBody
                /\ o.users = users

\* A registered user; a sign-up with the same email and another username is
\* refused, one with another email and username is served
C11_Witness ==
    \E i \in DOMAIN users, dup \in SignUpRequests, new \in SignUpRequests :
        /\ dup.email = users[i].email
        /\ dup.username # users[i].username
        /\ HandleSignUp(dup).resp.err = ErrUserAlreadyExists
        /\ HandleSignUp(new).resp.status = StatusCreated
        /\ Len(HandleSignUp(new).users) = Len(users) + 1

\* C12: no two user rows share an email and no two share a username, also
\* when sign-ups with the same email or username run concurrently.
C12_UsersUnique ==
    \A i \in DOMAIN users, k \in DOMAIN users :
        i # k => users[i].email # users[k].email /\ users[i].username # users[k].username

C14_CacheNeverChangesOutcome ==
    /\ \A id \in JournalRouteIds, getOK \in CacheOutcomes, setOK \in CacheOutcomes :
          LET r == JournalServiceGetByID(cache, id, getOK, setOK)
              s == JournalStorageGetByID(id)
          IN  /\ (r.err = "") = (s.err = "")
              /\ r.journal = s.journal
    /\ \A id \in DOMAIN journals, req \in JournalRequests, delOK \in CacheOutcomes :
          LET j == [Journal(id, journals[id]) EXCEPT !.name = req.name,
                                                    !.description = req.description]
              r == JournalServiceUpdate(cache, j, delOK)
              s == JournalStorageUpdate(j)
          IN  JournalValidate(j) = "" =>
                  /\ (r.err = "") = (s.err = "")
                  /\ r.journals = s.journals
    /\ \A id \in DOMAIN journals, delOK \in CacheOutcomes :
          LET r == JournalServiceDelete(cache, id, journals[id].user_id, delOK)
              s == JournalStorageDelete(id)
          IN  /\ (r.err = "") = (s.err = "")
              /\ r.journals = s.journals

\* C14, amended: a failing cache call never fails a journal operation and
\* never changes what it returns.  A GetByID whose cache Get fails or misses
\* returns exactly the store's result whether or not the Set fails; Update
\* and Delete return exactly the store's result whether or not the cache
\* Delete fails; a store failure fails the operation.  A GetByID whose cache
\* Get succeeds on a present key returns the cached journal without asking
\* the store.
C14_CacheFailureKeepsStoreOutcome ==
    /\ \A id \in JournalRouteIds, getOK \in CacheOutcomes, setOK \in CacheOutcomes :
          LET r == JournalServiceGetByID(cache, id, getOK, setOK)
              s == JournalStorageGetByID(id)
          IN  IF cacheEnabled /\ getOK /\ CacheKey(id) \in DOMAIN cache
              THEN /\ r.hit /\ r.reads = 0 /\ r.err = ""
                   /\ r.journal = UnmarshalJournal(cache[CacheKey(id)].data)
              ELSE /\ (r.err = "") = (s.err = "")
                   /\ r.journal = s.journal
    /\ \A id \in DOMAIN journals, req \in JournalRequests, delOK \in CacheOutcomes :
          LET j == [Journal(id, journals[id]) EXCEPT !.name = req.name,
                                                    !.description = req.description]
              r == JournalServiceUpdate(cache, j, delOK)
              s == JournalStorageUpdate(j)
          IN  JournalValidate(j) = "" =>
                  /\ (r.err = "") = (s.err = "")
                  /\ r.journals = s.journals
    /\ \A id \in DOMAIN journals, delOK \in CacheOutcomes :
          LET r == JournalServiceDelete(cache, id, journals[id].user_id, delOK)
              s == JournalStorageDelete(id)
          IN  /\ (r.err = "") = (s.err = "")
              /\ r.journals = s.journals

\* A deleted journal still under its key (the invalidation of the Delete
\* failed and the Delete succeeded), next to a live journal that is cached
C14_Witness ==
    /\ cacheEnabled
    /\ \E id \in DOMAIN journals, other \in LiveJournals :
          /\ journals[id].deleted
          /\ CacheKey(id) \in DOMAIN cache
          /\ JournalServiceGetByID(cache, id, FALSE, TRUE).err # ""
          /\ CacheKey(other) \in DOMAIN cache
          /\ JournalServiceUpdate(cache, Journal(other, journals[other]), FALSE).err = ""

\* C15: if every invalidation succeeds, a GetByID that starts after an
\* Update has returned never yields the pre-update journal, for any
\* interleaving of concurrent GetByID and Update calls: when no Update is in
\* flight, a GetByID that starts now answers with the journal the store holds.
C15_NoStaleReadAfterUpdateReturned ==
    (\A i \in DOMAIN inflight : inflight[i].kind # "update") =>
        \A id \in LiveJournals :
            JournalServiceGetByID(cache, id, TRUE, TRUE).journal = Journal(id, journals[id])

\* C16: when no cache is configured the journal service behaves exactly like
\* direct store access.  In every state a sequence of Create, GetByID, Update
\* and Delete calls reaches, each of the four calls returns the same result
\* and leaves the same store state as the service without cache support, and
\* the cache is not touched.
C16_NilCacheIsDirectStoreAccess ==
    ~cacheEnabled =>
        /\ \A id \in JournalRouteIds, getOK \in BOOLEAN, setOK \in BOOLEAN :
              LET r == JournalServiceGetByID(cache, id, getOK, setOK)
                  d == PlainJournalServiceGetByID(id)
              IN  /\ r.err = d.err
                  /\ r.journal = d.journal
                  /\ r.cache = cache
                  /\ r.reads = 1
        /\ \A u \in Users \cup {NilUUID}, req \in JournalRequests :
              JournalServiceCreate(u, req) = PlainJournalServiceCreate(u, req)
        /\ \A id \in DOMAIN journals, u \in Users \cup {NilUUID}, req \in JournalRequests,
                delOK \in BOOLEAN :
              LET j == [id |-> id, user_id |-> u, name |-> req.name,
                        description |-> req.description, deleted |-> FALSE]
                  r == JournalServiceUpdate(cache, j, delOK)
                  d == PlainJournalServiceUpdate(j)
              IN  /\ r.err = d.err
                  /\ r.journals = d.journals
                  /\ r.cache = cache
        /\ \A id \in JournalRouteIds, u \in Users, delOK \in BOOLEAN :
              LET r == JournalServiceDelete(cache, id, u, delOK)
                  d == PlainJournalServiceDelete(id, u)
              IN  /\ r.err = d.err
                  /\ r.journals = d.journals
                  /\ r.cache = cache

\* Without a cache: a journal that was updated and is read from the store,
\* next to a deleted one whose read and update fail
C16_Witness ==
    /\ ~cacheEnabled
    /\ \E id \in LiveJournals, gone \in DOMAIN journals :
          /\ journals[id].name = "Swing"
          /\ JournalServiceGetByID(cache, id, TRUE, TRUE).journal.name = "Swing"
          /\ JournalServiceDelete(cache, id, journals[id].user_id, TRUE).err = ""
          /\ journals[gone].deleted
          /\ JournalServiceGetByID(cache, gone, TRUE, TRUE).err # ""
          /\ JournalServiceUpdate(cache, Journal(gone, journals[gone]), TRUE).err # ""

\* C17: Validate on an entry checks, in this order, journal id, asset, LTF,
\* HTF, session, trade type, direction, entry type, result, and returns only
\* the error kind of the first check that fails; it returns no error iff the
\* journal id is not nil and every enum field holds one of its valid values.
C17_ValidateFirstFailingCheck ==
    \A i \in DOMAIN inflight :
        inflight[i].kind = "validate" =>
            LET e     == inflight[i].entry
                fails == << e.journal_id = 0,
                            ~CurrencyPairIsValid(e.data.asset),
                            ~TimeFrameIsValid(e.data.ltf),
                            ~TimeFrameIsValid(e.data.htf),
                            ~TradingSessionIsValid(e.data.session),
                            ~TradeTypeIsValid(e.data.trade_type),
                            ~TradeDirectionIsValid(e.data.direction),
                            ~EntryTypeIsValid(e.data.entry_type),
                            ~TradeResultIsValid(e.data.result) >>
                kinds == << "invalid journal ID", "invalid currency pair asset",
                            "invalid lower timeframe (LTF)",
                            "invalid higher timeframe (HTF)", "invalid trading session",
                            "invalid trade type", "invalid trade direction",
                            "invalid entry type", "invalid trade result" >>
                bad   == {k \in DOMAIN fails : fails[k]}
            IN  /\ (inflight[i].err = "") = (bad = {})
                /\ bad # {} =>
                      inflight[i].err = kinds[CHOOSE k \in bad : \A m \in bad : k <= m]

\* Validate returned the LTF error for an entry whose LTF, HTF and result
\* are all invalid
C17_Witness ==
    \E i \in DOMAIN inflight :
        /\ inflight[i].kind = "validate"
        /\ inflight[i].entry.journal_id # 0
        /\ inflight[i].entry.data.asset = "EURUSD"
        /\ inflight[i].entry.data.ltf = "2H"
        /\ inflight[i].entry.data.htf = ""
        /\ inflight[i].entry.data.result = "WIN"
        /\ inflight[i].err = "invalid lower timeframe (LTF)"

C18_MaxRRMustBePositiveOverHTTP ==
    \A maxRR \in {-100, 0, 1}, jid \in LiveJournals :
        LET req == EntryRequest("EURUSD", 12050, maxRR, "TP")
            h   == HandleEntryCreate(journals[jid].user_id, jid, req)
        IN  /\ IF maxRR > 0
               THEN h.resp.status = StatusCreated
               ELSE h.resp.status = StatusBadRequest /\ h.entries = entries
            /\ \A eid \in LiveEntriesOf(jid) :
                  LET hu == HandleEntryUpdate(journals[jid].user_id, jid, eid, req)
                  IN  IF maxRR > 0
                      THEN hu.resp.status = StatusOK
                      ELSE hu.resp.status = StatusBadRequest /\ hu.entries = entries

\* C19: validate-then-persist is atomic for journal and entry Create and
\* Update.  When Validate fails the operation returns the validation error
\* and the store is unchanged; the operation reports success only when the
\* record was valid and is persisted with the fields given.
C19_ValidateThenPersistIsAtomic ==
    /\ \A u \in Users \cup {NilUUID}, req \in JournalRequests :
          LET j == NewTradingJournal(u, req.name, req.description)
              r == JournalServiceCreate(u, req)
          IN  /\ JournalValidate(j) # "" =>
                    r.err = "invalid trading journal data" /\ r.journals = journals
              /\ r.err = "" =>
                    /\ JournalValidate(j) = ""
                    /\ Len(r.journals) = Len(journals) + 1
                    /\ Journal(r.id, r.journals[r.id]) = [j EXCEPT !.id = r.id]
                    /\ \A k \in DOMAIN journals : r.journals[k] = journals[k]
    /\ \A id \in DOMAIN journals, u \in Users \cup {NilUUID}, req \in JournalRequests,
            delOK \in CacheOutcomes :
          LET j == [id |-> id, user_id |-> u, name |-> req.name,
                    description |-> req.description, deleted |-> FALSE]
              r == JournalServiceUpdate(cache, j, delOK)
          IN  /\ JournalValidate(j) # "" =>
                    r.err = "invalid trading journal data" /\ r.journals = journals
              /\ r.err = "" =>
                    /\ JournalValidate(j) = ""
                    /\ Journal(id, r.journals[id]) = j
                    /\ \A k \in DOMAIN journals \ {id} : r.journals[k] = journals[k]
              /\ r.err # "" => r.journals = journals
    /\ \A jid \in LiveJournals, req \in EntryRequests \cup {EntryRequest("BTCUSD", 500, 150, "TP")} :
          LET e == NewTradingJournalEntry(jid, req)
              r == EntryServiceCreate(jid, req)
          IN  /\ EntryValidate(e) # "" =>
                    r.err = "invalid trading journal entry data" /\ r.entries = entries
              /\ r.err = "" =>
                    /\ EntryValidate(e) = ""
                    /\ Len(r.entries) = Len(entries) + 1
                    /\ Entry(r.id, r.entries[r.id]) = [e EXCEPT !.id = r.id]
                    /\ \A k \in DOMAIN entries : r.entries[k] = entries[k]
    /\ \A eid \in DOMAIN entries, jid \in {0} \cup JournalRouteIds,
            req \in EntryRequests \cup {EntryRequest("BTCUSD", 500, 150, "TP")} :
          LET e == [id |-> eid, journal_id |-> jid, data |-> req, deleted |-> FALSE]
              r == EntryServiceUpdate(e)
          IN  /\ EntryValidate(e) # "" =>
                    r.err = "invalid trading journal entry data" /\ r.entries = entries
              /\ r.err = "" =>
                    /\ EntryValidate(e) = ""
                    /\ Entry(eid, r.entries[eid]) = e
                    /\ \A k \in DOMAIN entries \ {eid} : r.entries[k] = entries[k]
              /\ r.err # "" => r.entries = entries

\* A journal with an entry, where a Create and an Update with an invalid
\* result fail and a valid Update of the entry succeeds
C19_Witness ==
    \E jid \in LiveJournals, eid \in LiveEntries :
        /\ entries[eid].journal_id = jid
        /\ EntryServiceCreate(jid, EntryRequest("EURUSD", 12050, 250, "XX")).err
              = "invalid trading journal entry data"
        /\ EntryServiceUpdate([Entry(eid, entries[eid]) EXCEPT !.data.result = "XX"]).err
              = "invalid trading journal entry data"
        /\ EntryServiceUpdate([Entry(eid, entries[eid]) EXCEPT !.data.result = "SL"]).err = ""
        /\ JournalServiceUpdate(cache, [Journal(jid, journals[jid]) EXCEPT !.name = ""],
                                TRUE).err = "invalid trading journal data"

\* C20: entry Create for a journal id that does not exist or is soft-deleted
\* fails with "journal not found" and persists no entry, and an entry is only
\* ever inserted with a journal_id that references an existing journal at
\* the time of the insert, also when a journal Delete runs between the
\* existence check and the insert.
C20_InsertOnlyUnderExistingJournal ==
    /\ [](\A jid \in JournalRouteIds \ LiveJournals, req \in EntryRequests :
            /\ EntryServiceCreate(jid, req).err = "journal not found"
            /\ EntryServiceCreate(jid, req).entries = entries)
    /\ [][Len(entries') > Len(entries) =>
              entries'[Len(entries')].journal_id \in LiveJournals]_vars

\* The part of C20 that holds: a Create that starts when the journal does
\* not exist or is soft-deleted fails and persists nothing
C20_CreateUnderMissingJournalFails ==
    \A jid \in JournalRouteIds \ LiveJournals, req \in EntryRequests :
        /\ EntryServiceCreate(jid, req).err = "journal not found"
        /\ EntryServiceCreate(jid, req).entries = entries

\* C21: a journal's user_id never changes after creation.  A journal is
\* created with the user id of the caller, and no request, by any user,
\* changes the user_id of a journal row.
C21_OwnerNeverChanges ==
    /\ [](\A u \in Users, req \in JournalRequests :
            LET o == HandleJournalCreate(u, req)
            IN  o.resp.status = StatusCreated =>
                    /\ Len(o.journals) = Len(journals) + 1
                    /\ o.journals[Len(o.journals)].user_id = u)
    /\ [][\A id \in DOMAIN journals :
              /\ id \in DOMAIN journals'
              /\ journals'[id].user_id = journals[id].user_id]_vars

\* A live journal of one user that the other user's Update renames, from
\* the store or from the cache, and that keeps its user_id
C21_Witness ==
    \E id \in LiveJournals, u \in Users :
        /\ journals[id].user_id # u
        /\ CacheKey(id) \in DOMAIN cache
        /\ journals[id].name = "Forex Main"
        /\ LET o == HandleJournalUpdate(u, id, [name |-> "Swing", description |-> ""],
                                        TRUE, TRUE, TRUE)
           IN  /\ o.resp.status = StatusOK
               /\ o.journals[id].name = "Swing"
               /\ o.journals[id].user_id = journals[id].user_id

\* C22: deletion never silently no-ops.  Journal Delete and entry Delete
\* return an error, and change nothing, when the target does not exist, is
\* already soft-deleted, or does not match the supplied owner / journal id;
\* a success implies that exactly the named row went from non-deleted to
\* soft-deleted.
C22_DeleteNeverNoOps ==
    /\ \A id \in JournalRouteIds, u \in Users, delOK \in CacheOutcomes :
          LET r  == JournalServiceDelete(cache, id, u, delOK)
              ok == id \in LiveJournals /\ journals[id].user_id = u
          IN  /\ ~ok => r.err = "trading journal not found or access denied"
                          /\ r.journals = journals
              /\ r.err = "" => ok /\ r.journals = [journals EXCEPT ![id].deleted = TRUE]
    /\ \A eid \in EntryRouteIds, jid \in {0} \cup JournalRouteIds :
          LET r  == EntryServiceDelete(eid, jid)
              ok == eid \in LiveEntries /\ entries[eid].journal_id = jid
          IN  /\ ~ok => r.err = "trading journal entry not found or access denied"
                          /\ r.entries = entries
              /\ r.err = "" => ok /\ r.entries = [entries EXCEPT ![eid].deleted = TRUE]

\* A deleted entry and a live one of the same journal, next to a second
\* journal that is deleted: deleting again, or under the wrong journal or
\* owner, fails, and deleting the live entry succeeds
C22_Witness ==
    \E jid \in LiveJournals, gone \in DOMAIN journals, e1 \in LiveEntries, e2 \in DOMAIN entries :
        /\ journals[gone].deleted
        /\ entries[e2].deleted
        /\ entries[e1].journal_id = jid /\ entries[e2].journal_id = jid
        /\ EntryServiceDelete(e2, jid).err # ""
        /\ EntryServiceDelete(e1, gone).err # ""
        /\ EntryServiceDelete(e1, jid).err = ""
        /\ JournalServiceDelete(cache, gone, journals[gone].user_id, TRUE).err # ""
        /\ \E u \in Users : u # journals[jid].user_id
                             /\ JournalServiceDelete(cache, jid, u, TRUE).err # ""

\* C23: after a journal is soft-deleted by its owner the deletion cascades
\* to its entries: entry list, count, get-by-id, ownership check and
\* statistics for that journal no longer return or count any of its entries.
C23_DeleteCascadesToEntries ==
    \A jid \in DOMAIN journals, u \in Users :
        journals[jid].deleted =>
            /\ HandleEntryList(u, jid).resp.body.entries = {}
            /\ HandleEntryList(u, jid).resp.body.total = 0
            /\ EntryStorageCountByJournalID(jid) = 0
            /\ StatisticsOf(jid).total_trades = 0
            /\ \A eid \in EntryRouteIds :
                  /\ ~EntryServiceVerifyAccess(eid, jid)
                  /\ HandleEntryGetByID(u, jid, eid).resp.status # StatusOK

C25_StoreErrorAbsenceMismatchDistinct ==
    /\ \A u \in Users, id \in JournalRouteIds :
          HandleJournalGetByIDStoreError(u, id).resp.status = StatusInternalServerError
    /\ \A u \in Users, jid \in JournalRouteIds :
          \A eid \in LiveEntriesOf(jid) :
              HandleEntryGetByIDStoreError(u, jid, eid).resp.status
                  = StatusInternalServerError
    /\ \A u \in Users, id \in JournalRouteIds \ LiveJournals, req \in JournalRequests,
            ok \in CacheOutcomes :
          /\ HandleJournalGetByID(u, id, ok, ok).resp.status = StatusNotFound
          /\ ValidateJournalRequest(req) =>
                HandleJournalUpdate(u, id, req, ok, ok, ok).resp.status = StatusNotFound
          /\ HandleJournalDelete(u, id, ok).resp.status = StatusNotFound
    /\ \A u \in Users, jid \in JournalRouteIds, eid \in EntryRouteIds \ LiveEntries :
          /\ HandleEntryGetByID(u, jid, eid).resp.status = StatusNotFound
          /\ HandleEntryDelete(u, jid, eid).resp.status = StatusNotFound
    /\ \A u \in Users, id \in LiveJournals, ok \in CacheOutcomes :
          journals[id].user_id # u =>
              HandleJournalDelete(u, id, ok).resp.status \in {StatusForbidden, StatusNotFound}
    /\ \A u \in Users, jid \in JournalRouteIds, eid \in LiveEntries :
          entries[eid].journal_id # jid =>
              /\ HandleEntryGetByID(u, jid, eid).resp.status
                    \in {StatusForbidden, StatusNotFound}
              /\ HandleEntryDelete(u, jid, eid).resp.status
                    \in {StatusForbidden, StatusNotFound}

\* ------------------------------------------------------------ rate limiter
\* The Limit middleware, first in the chain after Recovery.  A request is
\* in flight from its arrival to its response: getVisitor runs under
\* RateLimiter.mu, Allow under the limiter's own mutex, and other requests
\* run between the two.  The client IP is the string getIP returned.
ClientIPs == {"10.0.0.1", "10.0.0.2"}

\* cfg.Burst, the size of each visitor's token bucket
Burst == 2

StatusTooManyRequests == 429

\* a getVisitor that allocates a limiter on every call
getVisitor_AlwaysNew(ip) ==
    [visitors |-> [k \in DOMAIN visitors \cup {ip} |->
                       IF k = ip THEN Len(limiters) + 1 ELSE visitors[k]],
     limiters |-> Append(limiters, Burst),
     limiter  |-> Len(limiters) + 1]

\* getVisitor under rl.mu: the limiter stored for the IP, created and
\* stored when there is none
getVisitor(ip) ==
    IF ip \in DOMAIN visitors
    THEN [visitors |-> visitors, limiters |-> limiters, limiter |-> visitors[ip]]
    ELSE [visitors |-> [k \in DOMAIN visitors \cup {ip} |->
                            IF k = ip THEN Len(limiters) + 1 ELSE visitors[k]],
          limiters |-> Append(limiters, Burst),
          limiter  |-> Len(limiters) + 1]

\* cleanupVisitors under rl.mu: every entry of the map is deleted.  No
\* function of the program calls it and no goroutine is started for it, so
\* it is no step of NextRateLimit.
cleanupVisitors == [ip \in {} |-> 0]

\* limiter.Allow(): takes one token when there is one
Allow(tokens) ==
    IF tokens > 0 THEN [ok |-> TRUE, tokens |-> tokens - 1]
    ELSE [ok |-> FALSE, tokens |-> tokens]

\* A request in the middleware: where it is, the limiter it holds, what
\* Allow answered, the status written, and whether c.Next() ran.
LimitCall(pc, ip, limiter, allowed, status, reached) ==
    [kind |-> "limit", pc |-> pc, ip |-> ip, limiter |-> limiter,
     allowed |-> allowed, status |-> status, reached |-> reached]

\* a request arrives and getIP resolves its client IP
LimitGetIP(ip) ==
    /\ Len(inflight) < MaxInflight
    /\ inflight' = Append(inflight, LimitCall("getVisitor", ip, 0, FALSE, 0, FALSE))
    /\ UNCHANGED <<journals, entries, cacheEnabled, cache, users, usersUnique,
                   visitors, limiters>>

\* limiter := rl.getVisitor(ip)
LimitGetVisitor(i) ==
    /\ i \in DOMAIN inflight
    /\ inflight[i].kind = "limit" /\ inflight[i].pc = "getVisitor"
    /\ LET r == getVisitor(inflight[i].ip)
       IN  /\ visitors' = r.visitors
           /\ limiters' = r.limiters
           /\ inflight' = [inflight EXCEPT ![i].pc = "allow", ![i].limiter = r.limiter]
    /\ UNCHANGED <<journals, entries, cacheEnabled, cache, users, usersUnique>>

\* if !limiter.Allow() { 429; return }: the chain is aborted, or goes on
LimitAllow(i) ==
    /\ i \in DOMAIN inflight
    /\ inflight[i].kind = "limit" /\ inflight[i].pc = "allow"
    /\ LET l == inflight[i].limiter
           r == Allow(limiters[l])
       IN  /\ limiters' = [limiters EXCEPT ![l] = r.tokens]
           /\ inflight' = [inflight EXCEPT
                             ![i].allowed = r.ok,
                             ![i].pc = IF r.ok THEN "next" ELSE "done",
                             ![i].status = IF r.ok THEN 0 ELSE StatusTooManyRequests]
    /\ UNCHANGED <<journals, entries, cacheEnabled, cache, users, usersUnique, visitors>>

\* c.Next(): the handlers after the middleware run and answer
LimitNext(i) ==
    /\ i \in DOMAIN inflight
    /\ inflight[i].kind = "limit" /\ inflight[i].pc = "next"
    /\ inflight' = [inflight EXCEPT ![i].pc = "done", ![i].reached = TRUE,
                                    ![i].status = StatusOK]
    /\ UNCHANGED <<journals, entries, cacheEnabled, cache, users, usersUnique,
                   visitors, limiters>>

\* the response is written and the request is over
LimitDone(i) ==
    /\ i \in DOMAIN inflight
    /\ inflight[i].kind = "limit" /\ inflight[i].pc = "done"
    /\ inflight' = [k \in 1..(Len(inflight) - 1) |->
                        IF k < i THEN inflight[k] ELSE inflight[k + 1]]
    /\ UNCHANGED <<journals, entries, cacheEnabled, cache, users, usersUnique,
                   visitors, limiters>>

\* time passes: a bucket that is not full gets a token back
TokensRefill(l) ==
    /\ l \in DOMAIN limiters
    /\ limiters[l] < Burst
    /\ limiters' = [limiters EXCEPT ![l] = @ + 1]
    /\ UNCHANGED <<journals, entries, cacheEnabled, cache, users, usersUnique,
                   visitors, inflight>>

NextRateLimit ==
    \/ \E ip \in ClientIPs : LimitGetIP(ip)
    \/ \E i \in 1..MaxInflight : LimitGetVisitor(i)
    \/ \E i \in 1..MaxInflight : LimitAllow(i)
    \/ \E i \in 1..MaxInflight : LimitNext(i)
    \/ \E i \in 1..MaxInflight : LimitDone(i)
    \/ \E l \in 1..Cardinality(ClientIPs) + MaxInflight : TokensRefill(l)

SpecRateLimit == InitNoCache /\ [][NextRateLimit]_vars

\* C26: under any interleaving of requests there is one limiter per client
\* IP, the one stored in the map, and every request of that IP that is past
\* getVisitor holds it and draws its token from it; a request that Allow
\* denied has status 429 and never reached the handlers after the
\* middleware, and only an allowed request reaches them.
C26_OneLimiterPerIPAndDeniedIs429 ==
    /\ Len(limiters) = Cardinality(DOMAIN visitors)
    /\ \A ip \in DOMAIN visitors : visitors[ip] \in DOMAIN limiters
    /\ \A l \in DOMAIN limiters : limiters[l] \in 0..Burst
    /\ \A i \in DOMAIN inflight :
          inflight[i].pc # "getVisitor" =>
              /\ inflight[i].ip \in DOMAIN visitors
              /\ inflight[i].limiter = visitors[inflight[i].ip]
    /\ \A i \in DOMAIN inflight :
          /\ inflight[i].pc = "next" => inflight[i].allowed
          /\ inflight[i].reached => inflight[i].allowed
          /\ (inflight[i].pc = "done" /\ ~inflight[i].allowed) =>
                /\ inflight[i].status = StatusTooManyRequests
                /\ ~inflight[i].reached

\* two requests of one IP hold the same limiter; its bucket is empty, one
\* of them was denied and the other is still to call Allow
C26_Witness ==
    \E i, j \in DOMAIN inflight :
        /\ i # j
        /\ inflight[i].ip = inflight[j].ip
        /\ inflight[i].pc = "done" /\ ~inflight[i].allowed
        /\ inflight[i].status = StatusTooManyRequests
        /\ inflight[j].pc = "allow"
        /\ inflight[j].limiter = inflight[i].limiter
        /\ limiters[inflight[i].limiter] = 0

\* ------------------------------------------- two Deletes of the same row
\* Delete of the journal service and of the entry service, each in two
\* steps: the Exists query, then the store's delete.  A call stays in
\* inflight after it returned, with the error it returned; checked says
\* that Exists answered true for it.
DeleteCall(kind, pc, id, owner, checked, err) ==
    [kind |-> kind, pc |-> pc, id |-> id, owner |-> owner, checked |-> checked,
     err |-> err]

\* TradingJournalService.Delete up to the answer of storage.Exists
JournalDeleteExists(userID, id) ==
    /\ Len(inflight) < MaxInflight
    /\ inflight' = Append(inflight,
          IF JournalStorageExists(id, userID)
          THEN DeleteCall("journal-delete", "delete", id, userID, TRUE, "")
          ELSE DeleteCall("journal-delete", "done", id, userID, FALSE,
                          "trading journal not found or access denied"))
    /\ UNCHANGED <<journals, entries, cacheEnabled, cache, users, usersUnique,
                   visitors, limiters>>

\* TradingJournalService.Delete from storage.Delete on; there is no cache
JournalDeleteStore(i) ==
    /\ i \in DOMAIN inflight
    /\ inflight[i].kind = "journal-delete" /\ inflight[i].pc = "delete"
    /\ LET r == JournalStorageDelete(inflight[i].id)
       IN  /\ journals' = r.journals
           /\ inflight' = [inflight EXCEPT ![i].pc = "done",
                 ![i].err = IF r.err # "" THEN "failed to delete trading journal" ELSE ""]
    /\ UNCHANGED <<entries, cacheEnabled, cache, users, usersUnique, visitors, limiters>>

\* TradingJournalEntryService.Delete up to the answer of storage.Exists
EntryDeleteExists(journalID, id) ==
    /\ Len(inflight) < MaxInflight
    /\ inflight' = Append(inflight,
          IF EntryStorageExists(id, journalID)
          THEN DeleteCall("entry-delete", "delete", id, journalID, TRUE, "")
          ELSE DeleteCall("entry-delete", "done", id, journalID, FALSE,
                          "trading journal entry not found or access denied"))
    /\ UNCHANGED <<journals, entries, cacheEnabled, cache, users, usersUnique,
                   visitors, limiters>>

\* TradingJournalEntryService.Delete from storage.Delete on
EntryDeleteStore(i) ==
    /\ i \in DOMAIN inflight
    /\ inflight[i].kind = "entry-delete" /\ inflight[i].pc = "delete"
    /\ LET r == EntryStorageDelete(inflight[i].id)
       IN  /\ entries' = r.entries
           /\ inflight' = [inflight EXCEPT ![i].pc = "done",
                 ![i].err = IF r.err # "" THEN "failed to delete trading journal entry"
                            ELSE ""]
    /\ UNCHANGED <<journals, cacheEnabled, cache, users, usersUnique, visitors, limiters>>

NextDeleteRace ==
    \/ \E u \in Users, req \in JournalRequests : JournalCreate(u, req)
    \/ \E u \in Users, jid \in JournalRouteIds, req \in CacheSpecEntryRequests :
          EntryCreate(u, jid, req)
    \/ \E u \in Users, id \in JournalRouteIds : JournalDeleteExists(u, id)
    \/ \E i \in 1..MaxInflight : JournalDeleteStore(i)
    \/ \E jid \in JournalRouteIds, id \in EntryRouteIds : EntryDeleteExists(jid, id)
    \/ \E i \in 1..MaxInflight : EntryDeleteStore(i)

SpecDeleteRace == InitNoCache /\ [][NextDeleteRace]_vars

\* the calls of a kind on a row that returned, and those that returned nil
DeletesReturned(kind, id) ==
    {i \in DOMAIN inflight :
        inflight[i].kind = kind /\ inflight[i].id = id /\ inflight[i].pc = "done"}

DeletesSucceeded(kind, id) ==
    {i \in DeletesReturned(kind, id) : inflight[i].err = ""}

\* C27: of two Delete calls on the same journal, or the same entry, that
\* both returned and of which at least one found the row with Exists,
\* exactly one returned nil and the other an error, however their steps
\* were ordered; and a row has deleted_at set exactly when one call on it
\* returned nil.
C27_TwoDeletesOneSucceeds ==
    /\ \A kind \in {"journal-delete", "entry-delete"}, id \in 1..MaxJournals + MaxEntries :
          (/\ Cardinality(DeletesReturned(kind, id)) = 2
           /\ \E i \in DeletesReturned(kind, id) : inflight[i].checked)
              => Cardinality(DeletesSucceeded(kind, id)) = 1
    /\ \A id \in DOMAIN journals :
          journals[id].deleted <=>
              Cardinality(DeletesSucceeded("journal-delete", id)) = 1
    /\ \A id \in DOMAIN entries :
          entries[id].deleted <=>
              Cardinality(DeletesSucceeded("entry-delete", id)) = 1

\* both calls on a journal passed Exists before either deleted, and both
\* have returned
C27_Witness ==
    /\ Len(inflight) = 2
    /\ inflight[1].kind = "journal-delete" /\ inflight[2].kind = "journal-delete"
    /\ inflight[1].id = inflight[2].id
    /\ inflight[1].checked /\ inflight[2].checked
    /\ inflight[1].pc = "done" /\ inflight[2].pc = "done"
    /\ inflight[1].owner = journals[inflight[1].id].user_id
    /\ inflight[2].owner = inflight[1].owner

\* C28: entry Update through the handler never changes an entry's id or
\* journal_id.  Whatever the request, the table keeps its rows in place,
\* every row keeps its journal_id and its deleted_at, only the row named by
\* the route can change, and on success its trade fields are the
\* request's; so no step of any request moves an entry to another journal.
C28_EntryUpdateKeepsIdAndJournal ==
    /\ [](\A u \in Users, jid \in JournalRouteIds, eid \in EntryRouteIds,
             req \in EntryRequests :
            LET o == HandleEntryUpdate(u, jid, eid, req)
            IN  /\ Len(o.entries) = Len(entries)
                /\ \A k \in DOMAIN entries :
                      /\ o.entries[k].journal_id = entries[k].journal_id
                      /\ o.entries[k].deleted = entries[k].deleted
                      /\ k # eid => o.entries[k] = entries[k]
                /\ o.resp.status = StatusOK =>
                      /\ eid \in LiveEntries
                      /\ o.entries[eid].data = req)
    /\ [][\A id \in DOMAIN entries :
              /\ id \in DOMAIN entries'
              /\ entries'[id].journal_id = entries[id].journal_id]_vars

\* A live entry whose Update with another body succeeds while a second
\* journal exists: the trade fields change, the journal_id does not
C28_Witness ==
    \E eid \in LiveEntries, u \in Users :
        /\ Len(journals) = MaxJournals
        /\ entries[eid].data = EntryRequest("EURUSD", 12050, 250, "TP")
        /\ LET req == EntryRequest("GBPUSD", 500, 150, "BE")
               o   == HandleEntryUpdate(u, entries[eid].journal_id, eid, req)
           IN  /\ o.resp.status = StatusOK
               /\ o.entries[eid].data = req
               /\ o.entries[eid].journal_id = entries[eid].journal_id

\* ------------------------------ GetStatistics next to writes of entries
\* The storage's GetStatistics runs four queries on s.db, one after the
\* other and outside any transaction: CountByJournalID, the GROUP BY on
\* result, SUM(realized) and AVG(max_rr).  Other requests are served
\* between them.  The call carries the stats map it has filled so far.
StatsCall(pc, journalID, stats, resp) ==
    [kind |-> "stats", pc |-> pc, journal_id |-> journalID, stats |-> stats,
     resp |-> resp]

\* what the queries for the keys in ks return on the table as it is now
StatsQuery(journalID, ks) ==
    LET now == EntryStorageGetStatistics(journalID)
    IN  [k \in (DOMAIN now) \cap ks |-> now[k]]

\* stats[k] = v for every key of the query's answer
StatsPut(stats, answer) ==
    [k \in (DOMAIN stats) \cup (DOMAIN answer) |->
        IF k \in DOMAIN answer THEN answer[k] ELSE stats[k]]

\* the entry bodies that pass the request validation and entry.Validate()
PersistableEntryRequests ==
    {req \in EntryRequests :
        ValidateEntryRequest(req) /\ EntryValidate(NewTradingJournalEntry(1, req)) = ""}

\* totalTrades, err := s.CountByJournalID(ctx, journalID); one statistics
\* request is followed at a time
StatsCount(journalID) ==
    /\ inflight = <<>>
    /\ inflight' = <<StatsCall("results", journalID,
                               StatsQuery(journalID, {"total_trades"}), NoBody)>>
    /\ UNCHANGED <<journals, entries, cacheEnabled, cache, users, usersUnique,
                   visitors, limiters>>

\* the GROUP BY result query and the switch that fills wins, losses, break_even
StatsResults(i) ==
    /\ i \in DOMAIN inflight
    /\ inflight[i].kind = "stats" /\ inflight[i].pc = "results"
    /\ inflight' = [inflight EXCEPT ![i].pc = "realized",
          ![i].stats = StatsPut(@, StatsQuery(inflight[i].journal_id,
                                              {"wins", "losses", "break_even"}))]
    /\ UNCHANGED <<journals, entries, cacheEnabled, cache, users, usersUnique,
                   visitors, limiters>>

\* COALESCE(SUM(realized), 0)
StatsRealized(i) ==
    /\ i \in DOMAIN inflight
    /\ inflight[i].kind = "stats" /\ inflight[i].pc = "realized"
    /\ inflight' = [inflight EXCEPT ![i].pc = "avg",
          ![i].stats = StatsPut(@, StatsQuery(inflight[i].journal_id, {"total_realized"}))]
    /\ UNCHANGED <<journals, entries, cacheEnabled, cache, users, usersUnique,
                   visitors, limiters>>

\* COALESCE(AVG(max_rr), 0), the service's win_rate and the handler's 200
StatsAvgRR(i) ==
    /\ i \in DOMAIN inflight
    /\ inflight[i].kind = "stats" /\ inflight[i].pc = "avg"
    /\ LET stats == StatsPut(inflight[i].stats,
                             StatsQuery(inflight[i].journal_id, {"avg_risk_reward"}))
           withRate == [k \in (DOMAIN stats) \cup {"win_rate"} |->
                           IF k = "win_rate" THEN WinRate(stats) ELSE stats[k]]
       IN  inflight' = [inflight EXCEPT ![i].pc = "done", ![i].stats = withRate,
                                        ![i].resp = ToStatisticsResponse(withRate)]
    /\ UNCHANGED <<journals, entries, cacheEnabled, cache, users, usersUnique,
                   visitors, limiters>>

\* the response is written and the request is over
StatsReturn(i) ==
    /\ i \in DOMAIN inflight
    /\ inflight[i].kind = "stats" /\ inflight[i].pc = "done"
    /\ inflight' = Finished(i)
    /\ UNCHANGED <<journals, entries, cacheEnabled, cache, users, usersUnique,
                   visitors, limiters>>

NextStatsRace ==
    \/ JournalCreate("u1", [name |-> "Forex Main", description |-> ""])
    \/ \E jid \in JournalRouteIds, req \in PersistableEntryRequests :
          EntryCreate("u1", jid, req)
    \/ \E jid \in JournalRouteIds, eid \in EntryRouteIds, req \in PersistableEntryRequests :
          EntryUpdate("u1", jid, eid, req)
    \/ \E jid \in JournalRouteIds, eid \in EntryRouteIds : EntryDelete("u1", jid, eid)
    \/ \E jid \in JournalRouteIds : StatsCount(jid)
    \/ StatsResults(1)
    \/ StatsRealized(1)
    \/ StatsAvgRR(1)
    \/ StatsReturn(1)

SpecStatsRace == InitNoCache /\ [][NextStatsRace]_vars

\* two float64 quotients are the same number
RatEq(a, b) == a.num * b.den = b.num * a.den

RECURSIVE SumOfBodies(_, _)
\* the sum of a column over the bodies rows[k], k in the domain of rows
SumOfBodies(rows, col) ==
    IF DOMAIN rows = {} THEN 0
    ELSE LET i    == CHOOSE k \in DOMAIN rows : TRUE
             rest == [k \in (DOMAIN rows) \ {i} |-> rows[k]]
         IN  (IF col = "realized" THEN rows[i].realized ELSE rows[i].max_rr)
             + SumOfBodies(rest, col)

\* a statistics response describes the set of entries whose bodies are rows
DescribesEntries(resp, rows) ==
    LET n        == Cardinality(DOMAIN rows)
        count(b) == Cardinality({k \in DOMAIN rows : ResultStatKey(rows[k].result) = b})
    IN  /\ resp.total_trades = n
        /\ resp.wins = count("wins")
        /\ resp.losses = count("losses")
        /\ resp.break_even = count("break_even")
        /\ resp.total_realized = SumOfBodies(rows, "realized")
        /\ RatEq(resp.avg_risk_reward,
                 IF n = 0 THEN Rat(0, 1) ELSE Rat(SumOfBodies(rows, "max_rr"), n))

\* C29: the statistics a request returns describe one set of entries: there
\* is a set of at most MaxEntries entries, with bodies the store can hold,
\* of which total_trades, wins, losses, break_even, total_realized and
\* avg_risk_reward are all the aggregates, whatever writes were served
\* between the queries.
C29_StatisticsAreOneSnapshot ==
    \A i \in DOMAIN inflight :
        (inflight[i].kind = "stats" /\ inflight[i].pc = "done") =>
            \E ids \in SUBSET EntryRouteIds :
                \E rows \in [ids -> PersistableEntryRequests] :
                    DescribesEntries(inflight[i].resp, rows)

\* C30: an entry request whose realized is exactly 0 and whose other fields
\* are valid, a break-even trade, passes the request validation and is
\* persisted, by Create (201, a new row with the body) and by Update (200,
\* the row holds the body).
C30_ZeroRealizedIsAccepted ==
    LET req == EntryRequest("EURUSD", 0, 150, "BE")
    IN  /\ \A u \in Users, jid \in LiveJournals :
              journals[jid].user_id = u =>
                  LET o == HandleEntryCreate(u, jid, req)
                  IN  /\ o.resp.status = StatusCreated
                      /\ Len(o.entries) = Len(entries) + 1
                      /\ o.entries[Len(o.entries)].data = req
        /\ \A u \in Users, eid \in LiveEntries :
              LET o == HandleEntryUpdate(u, entries[eid].journal_id, eid, req)
              IN  /\ o.resp.status = StatusOK
                  /\ o.entries[eid].data = req

====
